---------------------------- MODULE Spec2Model ----------------------------
(***************************************************************************)
(* Account store of smartalgov1: the server actions of                     *)
(* actions/user.actions.ts running against the User collection of          *)
(* modals/user.modal.ts.                                                   *)
(*                                                                         *)
(* A server action is a request: it is invoked (the code up to its one     *)
(* store round trip: argument validation, building the update), the store  *)
(* executes its findOneAndUpdate / exists as one atomic document           *)
(* operation, and the caller observes the value returned or the error      *)
(* thrown.  Several requests are in flight at once; the store executes     *)
(* their operations in any order.                                          *)
(*                                                                         *)
(* The webhook handler of app/api/webhooks/clerk/route.ts and subscribe of  *)
(* actions/stripe.actions.ts are requests of several round trips: each     *)
(* await of the store or of the billing provider is one step.              *)
(*                                                                         *)
(* The providers of the browser (UserProvider, WalletControl) are effects   *)
(* that call server actions and resume when the answer arrives: the part   *)
(* of an effect between two awaits is one step.                            *)
(*                                                                         *)
(* Strings the code converts or matches (user names, e-mail addresses,     *)
(* wallet addresses) are sequences of one-character strings.               *)
(***************************************************************************)
EXTENDS Integers, Sequences, FiniteSets, TLC

VARIABLES
    db,       \* the User collection: clerkId -> document, for the ids that have one
    calls,    \* the requests: process -> its position, arguments and outcome
    now,      \* the clock new Date() reads
    audit,    \* history variable: per clerkId, what the store applied and what callers were told
    stripe,   \* the billing provider: the customers and checkout sessions it holds
    client    \* one browser: the state of UserProvider and WalletControl, their pending effects

vars == <<db, calls, now, audit, stripe, client>>

-----------------------------------------------------------------------------
(* Strings *)

UpperChars == <<"A","B","C","D","E","F","G","H","I","J","K","L","M",
                "N","O","P","Q","R","S","T","U","V","W","X","Y","Z">>

LowerChars == <<"a","b","c","d","e","f","g","h","i","j","k","l","m",
                "n","o","p","q","r","s","t","u","v","w","x","y","z">>

DigitChars == <<"0","1","2","3","4","5","6","7","8","9">>

Range(s) == { s[i] : i \in DOMAIN s }

WhiteSpace == {" ", "\t", "\n"}

\* the lower-case letter of each upper-case letter
UpperToLower ==
    [c \in Range(UpperChars) |->
        LowerChars[CHOOSE i \in DOMAIN UpperChars : UpperChars[i] = c]]

\* String.prototype.toLowerCase, one character
LowerChar(c) == IF c \in DOMAIN UpperToLower THEN UpperToLower[c] ELSE c

\* String.prototype.toLowerCase
ToLowerCase(s) == [i \in DOMAIN s |-> LowerChar(s[i])]

RECURSIVE TrimStart(_)
\* String.prototype.trimStart
TrimStart(s) ==
    IF s = <<>> \/ Head(s) \notin WhiteSpace THEN s ELSE TrimStart(Tail(s))

RECURSIVE TrimEnd(_)
\* String.prototype.trimEnd
TrimEnd(s) ==
    IF s = <<>> \/ s[Len(s)] \notin WhiteSpace THEN s ELSE TrimEnd(SubSeq(s, 1, Len(s) - 1))

\* String.prototype.trim
Trim(s) == TrimEnd(TrimStart(s))

\* n copies of the character c
Rep(c, n) == [i \in 1..n |-> c]

\* the value of a field the document does not have
None == <<"<none>">>

-----------------------------------------------------------------------------
(* The User collection *)

\* credits: { type: Number, required: true, default: 10 }
DefaultCredits == 10

\* $slice: 50 of the creditHistory push
HistoryCap == 50

\* the fields that carry a unique index
UniqueFields == {"email", "username", "usernameLower", "solanaWallet"}

\* the key an index stores for a document: sparse indexes (username,
\* usernameLower, solanaWallet) skip a document that lacks the field; the
\* empty string is a value like any other
IndexKey(doc, f) ==
    CASE f = "email"         -> doc.email
      [] f = "username"      -> doc.username
      [] f = "usernameLower" -> doc.usernameLower
      [] f = "solanaWallet"  -> doc.solanaWallet

\* sparse: true
SparseFields == {"username", "usernameLower", "solanaWallet"}

\* the unique indexes that writing document doc under id u would violate,
\* among the indexed fields the write touches
DupKeys(store, u, doc, touched) ==
    { f \in UniqueFields \cap touched :
        /\ f \in SparseFields => IndexKey(doc, f) # None
        /\ \E v \in DOMAIN store \ {u} : IndexKey(store[v], f) = IndexKey(doc, f) }

\* deletedAt: null; a date is <<t>>, t a reading of the clock
NoDate == <<>>

\* the document an upsert inserts: the schema defaults under the fields given
NewDoc(email, firstName, lastName, tier, customerId, credits) ==
    [ email            |-> email,
      firstName        |-> firstName,
      lastName         |-> lastName,
      username         |-> None,
      usernameLower    |-> None,
      subscriptionTier |-> tier,
      customerId       |-> customerId,
      credits          |-> credits,
      creditHistory    |-> <<>>,
      topCoins         |-> <<>>,
      solanaWallet     |-> <<>>,
      deletedAt        |-> NoDate ]

Put(store, u, doc) == (u :> doc) @@ store

-----------------------------------------------------------------------------
(* Requests *)

Idle == [pc |-> "idle"]

Pending(op, arg) == [pc |-> "pending", op |-> op, arg |-> arg]

Returned(op, arg, val) == [pc |-> "done", op |-> op, arg |-> arg, threw |-> FALSE, val |-> val]

Threw(op, arg, msg) == [pc |-> "done", op |-> op, arg |-> arg, threw |-> TRUE, val |-> msg]

IsPending(p, op) == calls[p].pc = "pending" /\ calls[p].op = op

\* the error a duplicate key raises: code 11000 and the violated index's key pattern
DupError(f) == <<"E11000", f>>

NotFoundMsg == <<"User not found">>

\* the caller has seen the outcome; the process is free for the next request
Return(p) ==
    /\ calls[p].pc = "done"
    /\ calls' = [calls EXCEPT ![p] = Idle]
    /\ UNCHANGED <<db, now, audit, stripe, client>>

-----------------------------------------------------------------------------
(* createUser: the identity upsert *)

\* an argument the caller left out
Undef == "<undefined>"

\* x ?? d
Nullish(x, d) == IF x = Undef THEN d ELSE x

\* credits: user.credits ?? undefined, over the schema default: <<>> is a
\* call without credits, <<n>> one that passes n
InsertCredits(c) == IF c = <<>> THEN DefaultCredits ELSE c[1]

\* user.username && user.username.trim()
HasUsername(user) == user.username # None /\ Trim(user.username) # <<>>

\* mutant of the $set: the billing fields of the call are written as well
SetProfile_WithBilling(doc, user) ==
    [doc EXCEPT !.email            = Trim(ToLowerCase(user.email)),
                !.firstName        = Nullish(user.firstName, ""),
                !.lastName         = Nullish(user.lastName, ""),
                !.subscriptionTier = Nullish(user.subscriptionTier, "free"),
                !.customerId       = Nullish(user.customerId, "")]

\* a $set that names deletedAt as well and so revives the account
SetProfile_Revive(doc, user) ==
    [doc EXCEPT !.email     = Trim(ToLowerCase(user.email)),
                !.firstName = Nullish(user.firstName, ""),
                !.lastName  = Nullish(user.lastName, ""),
                !.deletedAt = NoDate]

\* the $set of createUser applied to a document
SetProfile(doc, user) ==
    LET base == [doc EXCEPT !.email     = Trim(ToLowerCase(user.email)),
                            !.firstName = Nullish(user.firstName, ""),
                            !.lastName  = Nullish(user.lastName, "")]
    IN  IF HasUsername(user)
        THEN [base EXCEPT !.username      = Trim(user.username),
                          !.usernameLower = ToLowerCase(Trim(user.username))]
        ELSE base

\* the document createUser's upsert inserts: $setOnInsert and the schema
\* defaults, under the $set
InsertedDoc(user) ==
    SetProfile(NewDoc(<<>>, "", "",
                      Nullish(user.subscriptionTier, "free"),
                      Nullish(user.customerId, ""),
                      InsertCredits(user.credits)),
               user)

\* the per-account history record of a fresh account
Opened(n, t) ==
    [open |-> TRUE, openedAt |-> t, opening |-> n, credited |-> 0, debited |-> 0,
     applied |-> <<>>]

createUser_call(p, user) ==
    /\ calls[p].pc = "idle"
    /\ calls' = [calls EXCEPT ![p] = Pending("createUser", user)]
    /\ UNCHANGED <<db, now, audit, stripe, client>>

\* mutant of the upsert: an existing document is replaced by a fresh one
UpsertedDoc_Reinsert(store, user) == InsertedDoc(user)

\* the document createUser's findOneAndUpdate leaves under user.clerkId
UpsertedDoc(store, user) ==
    IF user.clerkId \notin DOMAIN store
    THEN InsertedDoc(user)
    ELSE SetProfile(store[user.clerkId], user)

\* the unique indexes createUser's findOneAndUpdate would violate: an insert
\* writes every indexed field, an update the fields of its $set
UpsertDups(store, user) ==
    DupKeys(store, user.clerkId, UpsertedDoc(store, user),
            IF user.clerkId \notin DOMAIN store THEN UniqueFields
            ELSE {"email"} \cup
                 (IF HasUsername(user) THEN {"username", "usernameLower"} ELSE {}))

createUser_store(p) ==
    /\ IsPending(p, "createUser")
    /\ LET user    == calls[p].arg
           u       == user.clerkId
           insert  == u \notin DOMAIN db
           doc     == UpsertedDoc(db, user)
           dups    == UpsertDups(db, user)
       IN  IF dups = {}
           THEN /\ db' = Put(db, u, doc)
                /\ calls' = [calls EXCEPT ![p] = Returned("createUser", user, <<"UserDTO">>)]
                /\ audit' = IF insert THEN [audit EXCEPT ![u] = Opened(doc.credits, now)] ELSE audit
           ELSE /\ \E f \in dups :
                     calls' = [calls EXCEPT ![p] = Threw("createUser", user, DupError(f))]
                /\ UNCHANGED <<db, audit>>
    /\ UNCHANGED <<now, stripe, client>>

-----------------------------------------------------------------------------
(* The credit ledger *)

Min(a, b) == IF a <= b THEN a ELSE b

\* mutants of the push: the entry appended ($position left out); no $slice
PushHistory_Append(history, entry) ==
    LET pushed == history \o <<entry>>
    IN  SubSeq(pushed, 1, Min(Len(pushed), HistoryCap))

PushHistory_NoSlice(history, entry) == <<entry>> \o history

\* $push: { $each: [entry], $position: 0, $slice: 50 }
PushHistory(history, entry) ==
    LET pushed == <<entry>> \o history
    IN  SubSeq(pushed, 1, Min(Len(pushed), HistoryCap))

\* mutants of the debit's filter: the balance condition left out; any balance accepted
DebitFilter_NoBalance(doc, amount) == TRUE

DebitFilter_AnyCredit(doc, amount) == doc.credits >= 1

\* the filter of the debit: { clerkId: userId, credits: { $gte: amount } }
DebitFilter(doc, amount) == doc.credits >= amount

\* mutants of the debit's update: one credit per debit whatever the amount; no $push
DebitUpdate_ByOne(doc, amount, entry) ==
    [doc EXCEPT !.credits       = @ - 1,
                !.creditHistory = PushHistory(@, entry)]

DebitUpdate_NoPush(doc, amount, entry) == [doc EXCEPT !.credits = @ - amount]

\* the update of the debit: $inc credits by -amount, $push the entry
DebitUpdate(doc, amount, entry) ==
    [doc EXCEPT !.credits       = @ - amount,
                !.creditHistory = PushHistory(@, entry)]

\* the update of addCredits: $inc credits by amount
CreditUpdate(doc, amount) == [doc EXCEPT !.credits = @ + amount]

\* mutant of the amount check: zero accepted
InvalidAmount_Negative(amount) == amount < 0

\* if (amount <= 0) throw
InvalidAmount(amount) == amount <= 0

consumeBacktestCredits_call(p, userId, amount, coin, strategy) ==
    /\ calls[p].pc = "idle"
    /\ LET arg == [userId |-> userId, amount |-> amount, coin |-> coin, strategy |-> strategy]
       IN  IF InvalidAmount(amount)
           THEN /\ calls' = [calls EXCEPT ![p] =
                       Threw("consumeBacktestCredits", arg, <<"Amount must be > 0">>)]
                /\ UNCHANGED now
           ELSE /\ calls' = [calls EXCEPT ![p] =
                       Pending("consumeBacktestCredits",
                               arg @@
                               [entry |-> [coin |-> coin, strategy |-> strategy,
                                           creditsUsed |-> amount, timestamp |-> now]])]
                /\ now' = now + 1
    /\ UNCHANGED <<db, audit, stripe, client>>

consumeBacktestCredits_store(p) ==
    /\ IsPending(p, "consumeBacktestCredits")
    /\ LET arg     == calls[p].arg
           u       == arg.userId
           matched == u \in DOMAIN db /\ DebitFilter(db[u], arg.amount)
       IN  IF matched
           THEN /\ db' = Put(db, u, DebitUpdate(db[u], arg.amount, arg.entry))
                /\ calls' = [calls EXCEPT ![p] =
                       Returned("consumeBacktestCredits", arg, <<"UserDTO">>)]
                /\ audit' = [audit EXCEPT ![u].debited = @ + arg.amount,
                                          ![u].applied = <<arg.entry>> \o @]
           ELSE /\ calls' = [calls EXCEPT ![p] =
                       Threw("consumeBacktestCredits", arg,
                             <<"User not found or not enough credits">>)]
                /\ UNCHANGED <<db, audit>>
    /\ UNCHANGED <<now, stripe, client>>

addCredits_call(p, userId, amount) ==
    /\ calls[p].pc = "idle"
    /\ LET arg == [userId |-> userId, amount |-> amount]
       IN  calls' = [calls EXCEPT ![p] =
               IF InvalidAmount(amount)
               THEN Threw("addCredits", arg, <<"Amount must be > 0">>)
               ELSE Pending("addCredits", arg)]
    /\ UNCHANGED <<db, now, audit, stripe, client>>

addCredits_store(p) ==
    /\ IsPending(p, "addCredits")
    /\ LET arg == calls[p].arg
           u   == arg.userId
       IN  IF u \in DOMAIN db
           THEN /\ db' = Put(db, u, CreditUpdate(db[u], arg.amount))
                /\ calls' = [calls EXCEPT ![p] = Returned("addCredits", arg, <<"UserDTO">>)]
                /\ audit' = [audit EXCEPT ![u].credited = @ + arg.amount]
           ELSE /\ calls' = [calls EXCEPT ![p] = Threw("addCredits", arg, NotFoundMsg)]
                /\ UNCHANGED <<db, audit>>
    /\ UNCHANGED <<now, stripe, client>>

-----------------------------------------------------------------------------
(* Usernames *)

UsernameMinLen == 3

UsernameMaxLen == 20

\* [a-zA-Z0-9_]
WordChars == Range(UpperChars) \cup Range(LowerChars) \cup Range(DigitChars) \cup {"_"}

\* USERNAME_RE = /^[a-zA-Z0-9_]{3,20}$/
USERNAME_RE(s) ==
    /\ Len(s) >= UsernameMinLen
    /\ Len(s) <= UsernameMaxLen
    /\ \A i \in DOMAIN s : s[i] \in WordChars

RESERVED ==
    { <<"a","d","m","i","n">>,
      <<"r","o","o","t">>,
      <<"s","u","p","p","o","r","t">>,
      <<"h","e","l","p">>,
      <<"c","o","n","t","a","c","t">>,
      <<"a","b","o","u","t">>,
      <<"a","p","i">>,
      <<"a","p","p">>,
      <<"l","o","g","i","n">>,
      <<"s","i","g","n","u","p">>,
      <<"s","e","t","t","i","n","g","s">>,
      <<"p","r","o","f","i","l","e">>,
      <<"u","s","e","r">>,
      <<"u","s","e","r","s">>,
      <<"m","e">>,
      <<"d","a","s","h","b","o","a","r","d">>,
      <<"f","e","e","d">>,
      <<"e","x","p","l","o","r","e">>,
      <<"n","e","w","s">> }

\* the message of the format error (its en dash written as a hyphen)
FormatMsg == <<"Username must be 3-20 chars (letters, numbers, underscore).">>

ReservedMsg == <<"That username is reserved.">>

TakenMsg == <<"That username is taken.">>

\* mutant of isUsernameAvailable's checks: the reserved list not consulted
AvailabilityCheck_NoReserved(desiredRaw) ==
    IF ~USERNAME_RE(Trim(desiredRaw)) THEN FormatMsg ELSE <<>>

\* the checks of isUsernameAvailable that need no store: the reason it
\* returns with ok: false, or <<>> when the name passes
AvailabilityCheck(desiredRaw) ==
    LET desired == Trim(desiredRaw)
    IN  IF ~USERNAME_RE(desired) THEN FormatMsg
        ELSE IF ToLowerCase(desired) \in RESERVED THEN ReservedMsg
        ELSE <<>>

\* User.exists({ usernameLower: lower })
UsernameExists(store, lower) == \E v \in DOMAIN store : store[v].usernameLower = lower

\* the value isUsernameAvailable resolves to once the store has answered
AvailabilityAnswer(store, desiredRaw) ==
    IF UsernameExists(store, ToLowerCase(Trim(desiredRaw)))
    THEN <<"not ok">> \o TakenMsg
    ELSE <<"ok">>

\* mutant of setUsername's checks: the reserved list looked up with the case as typed
UsernameCheck_CaseSensitive(desiredRaw) ==
    LET desired == Trim(desiredRaw)
    IN  IF ~USERNAME_RE(desired) THEN FormatMsg
        ELSE IF desired \in RESERVED THEN ReservedMsg
        ELSE <<>>

\* the checks of setUsername before its store operation: the error it throws,
\* or <<>> when the name passes
UsernameCheck(desiredRaw) ==
    LET desired == Trim(desiredRaw)
    IN  IF ~USERNAME_RE(desired) THEN FormatMsg
        ELSE IF ToLowerCase(desired) \in RESERVED THEN ReservedMsg
        ELSE <<>>

\* the $set of setUsername
UsernameUpdate(doc, desired) ==
    [doc EXCEPT !.username = desired, !.usernameLower = ToLowerCase(desired)]

\* mutant of the translation: only the usernameLower index is taken for a collision
UsernameDupMsg_LowerOnly(f) == IF f = "usernameLower" THEN TakenMsg ELSE DupError(f)

\* the catch of setUsername: a duplicate key on usernameLower or username is
\* "taken", any other error is rethrown
UsernameDupMsg(f) == IF f \in {"usernameLower", "username"} THEN TakenMsg ELSE DupError(f)

\* mutant of the store operation: no unique index on the name fields
UsernameDups_NoIndex(store, u, desired) == {}

\* the unique indexes that setUsername's write would violate
UsernameDups(store, u, desired) ==
    DupKeys(store, u, UsernameUpdate(store[u], desired), {"username", "usernameLower"})

\* the outcomes setUsername's store operation can have for account u and a
\* name that passed the checks: <<"UserDTO">> for the updated account, or the
\* error thrown
SetUsernameOutcomes(store, u, desired) ==
    IF u \notin DOMAIN store THEN {NotFoundMsg}
    ELSE IF UsernameDups(store, u, desired) = {} THEN {<<"UserDTO">>}
    ELSE { UsernameDupMsg(f) : f \in UsernameDups(store, u, desired) }

\* what isUsernameAvailable(desiredRaw) resolves to against a store
isUsernameAvailable(store, desiredRaw) ==
    IF AvailabilityCheck(desiredRaw) # <<>>
    THEN <<"not ok">> \o AvailabilityCheck(desiredRaw)
    ELSE AvailabilityAnswer(store, desiredRaw)

\* the outcomes setUsername(clerkId, desiredRaw) can have against a store
setUsername(store, clerkId, desiredRaw) ==
    IF UsernameCheck(desiredRaw) # <<>>
    THEN {UsernameCheck(desiredRaw)}
    ELSE SetUsernameOutcomes(store, clerkId, Trim(desiredRaw))

isUsernameAvailable_call(p, desiredRaw) ==
    /\ calls[p].pc = "idle"
    /\ LET arg == [desiredRaw |-> desiredRaw]
       IN  calls' = [calls EXCEPT ![p] =
               IF AvailabilityCheck(desiredRaw) # <<>>
               THEN Returned("isUsernameAvailable", arg,
                             <<"not ok">> \o AvailabilityCheck(desiredRaw))
               ELSE Pending("isUsernameAvailable", arg)]
    /\ UNCHANGED <<db, now, audit, stripe, client>>

isUsernameAvailable_store(p) ==
    /\ IsPending(p, "isUsernameAvailable")
    /\ calls' = [calls EXCEPT ![p] =
           Returned("isUsernameAvailable", calls[p].arg,
                    AvailabilityAnswer(db, calls[p].arg.desiredRaw))]
    /\ UNCHANGED <<db, now, audit, stripe, client>>

setUsername_call(p, clerkId, desiredRaw) ==
    /\ calls[p].pc = "idle"
    /\ LET arg == [userId |-> clerkId, desiredRaw |-> desiredRaw]
       IN  calls' = [calls EXCEPT ![p] =
               IF UsernameCheck(desiredRaw) # <<>>
               THEN Threw("setUsername", arg, UsernameCheck(desiredRaw))
               ELSE Pending("setUsername", arg)]
    /\ UNCHANGED <<db, now, audit, stripe, client>>

setUsername_store(p) ==
    /\ IsPending(p, "setUsername")
    /\ LET arg     == calls[p].arg
           u       == arg.userId
           desired == Trim(arg.desiredRaw)
       IN  \E out \in SetUsernameOutcomes(db, u, desired) :
               IF out = <<"UserDTO">>
               THEN /\ db' = Put(db, u, UsernameUpdate(db[u], desired))
                    /\ calls' = [calls EXCEPT ![p] = Returned("setUsername", arg, out)]
               ELSE /\ calls' = [calls EXCEPT ![p] = Threw("setUsername", arg, out)]
                    /\ UNCHANGED db
    /\ UNCHANGED <<now, audit, stripe, client>>

-----------------------------------------------------------------------------
(* Solana wallets *)

WalletMinLen == 43

WalletMaxLen == 44

\* [1-9A-HJ-NP-Za-km-z]: base58, without 0, O, I and l
Base58Chars ==
    ((Range(UpperChars) \cup Range(LowerChars) \cup Range(DigitChars))
        \ {"0", "O", "I", "l"})

\* SOLANA_BASE58_RE = /^[1-9A-HJ-NP-Za-km-z]{43,44}$/
SOLANA_BASE58_RE(s) ==
    /\ Len(s) >= WalletMinLen
    /\ Len(s) <= WalletMaxLen
    /\ \A i \in DOMAIN s : s[i] \in Base58Chars

\* mutant of the format check: the length alone
isValidSolAddress_LengthOnly(addr) == Len(addr) >= WalletMinLen /\ Len(addr) <= WalletMaxLen

isValidSolAddress(addr) == SOLANA_BASE58_RE(addr)

WalletFormatMsg == <<"Invalid Solana address format.">>

WalletTakenMsg == <<"That wallet is already connected by another user.">>

\* mutant of the $set: the wallet field is not written
WalletUpdate_Ignore(doc, address) == doc

\* the $set of setSolanaWallet and of clearSolanaWallet
WalletUpdate(doc, address) == [doc EXCEPT !.solanaWallet = address]

\* the catch of setSolanaWallet
WalletDupMsg(f) == IF f = "solanaWallet" THEN WalletTakenMsg ELSE DupError(f)

\* mutant of the store operation: no unique index on the wallet
WalletDups_NoIndex(store, u, address) == {}

\* the unique indexes that writing the wallet would violate
WalletDups(store, u, address) ==
    DupKeys(store, u, WalletUpdate(store[u], address), {"solanaWallet"})

setSolanaWallet_call(p, clerkId, addressRaw) ==
    /\ calls[p].pc = "idle"
    /\ LET arg == [userId |-> clerkId, addressRaw |-> addressRaw]
       IN  calls' = [calls EXCEPT ![p] =
               IF ~isValidSolAddress(Trim(addressRaw))
               THEN Threw("setSolanaWallet", arg, WalletFormatMsg)
               ELSE Pending("setSolanaWallet", arg)]
    /\ UNCHANGED <<db, now, audit, stripe, client>>

setSolanaWallet_store(p) ==
    /\ IsPending(p, "setSolanaWallet")
    /\ LET arg     == calls[p].arg
           u       == arg.userId
           address == Trim(arg.addressRaw)
       IN  IF u \notin DOMAIN db
           THEN /\ calls' = [calls EXCEPT ![p] = Threw("setSolanaWallet", arg, NotFoundMsg)]
                /\ UNCHANGED db
           ELSE IF WalletDups(db, u, address) = {}
           THEN /\ db' = Put(db, u, WalletUpdate(db[u], address))
                /\ calls' = [calls EXCEPT ![p] = Returned("setSolanaWallet", arg, <<"UserDTO">>)]
           ELSE /\ \E f \in WalletDups(db, u, address) :
                     calls' = [calls EXCEPT ![p] = Threw("setSolanaWallet", arg, WalletDupMsg(f))]
                /\ UNCHANGED db
    /\ UNCHANGED <<now, audit, stripe, client>>

clearSolanaWallet_call(p, clerkId) ==
    /\ calls[p].pc = "idle"
    /\ calls' = [calls EXCEPT ![p] = Pending("clearSolanaWallet", [userId |-> clerkId])]
    /\ UNCHANGED <<db, now, audit, stripe, client>>

clearSolanaWallet_store(p) ==
    /\ IsPending(p, "clearSolanaWallet")
    /\ LET arg == calls[p].arg
           u   == arg.userId
       IN  IF u \notin DOMAIN db
           THEN /\ calls' = [calls EXCEPT ![p] = Threw("clearSolanaWallet", arg, NotFoundMsg)]
                /\ UNCHANGED db
           ELSE IF WalletDups(db, u, <<>>) = {}
           THEN /\ db' = Put(db, u, WalletUpdate(db[u], <<>>))
                /\ calls' = [calls EXCEPT ![p] = Returned("clearSolanaWallet", arg, <<"UserDTO">>)]
           ELSE /\ \E f \in WalletDups(db, u, <<>>) :
                     calls' = [calls EXCEPT ![p] = Threw("clearSolanaWallet", arg, DupError(f))]
                /\ UNCHANGED db
    /\ UNCHANGED <<now, audit, stripe, client>>

-----------------------------------------------------------------------------
(* Processes, accounts and inputs *)

Procs == {"p1", "p2"}

Ids == {"u1", "u2"}

\* the e-mail address the identity provider holds for an id, as delivered
EmailOf(u) == IF u = "u1" THEN <<"A", "@", "x", " ">> ELSE <<"b", "@", "x">>

\* the payload the webhook builds for createUser, with or without credits
UserInput(u, credits, username) ==
    [ clerkId          |-> u,
      email            |-> EmailOf(u),
      firstName        |-> "First",
      lastName         |-> "Last",
      subscriptionTier |-> "free",
      customerId       |-> "",
      credits          |-> credits,
      username         |-> username ]

\* no effect is pending on a process
NoTask == [kind |-> "none"]

\* the browser after the first render: useState(null) and useState(false)
\* in UserProvider, Clerk not loaded, no wallet connected, no effect pending;
\* rerun is set when a dependency of WalletControl's effect has changed
NoClient ==
    [ isClerkLoaded    |-> FALSE,
      clerkUser        |-> "",
      mongoUser        |-> <<>>,
      isContextLoaded  |-> FALSE,
      connectedAddress |-> <<>>,
      rerun            |-> FALSE,
      tasks            |-> [p \in Procs |-> NoTask] ]

NoAudit ==
    [open |-> FALSE, openedAt |-> 0, opening |-> 0, credited |-> 0, debited |-> 0,
     applied |-> <<>>]

Init ==
    /\ db = [u \in {} |-> u]
    /\ calls = [p \in Procs |-> Idle]
    /\ now = 0
    /\ audit = [u \in Ids |-> NoAudit]
    /\ stripe = [customers |-> <<>>, sessions |-> <<>>]
    /\ client = NoClient

-----------------------------------------------------------------------------
(* The credit ledger under concurrent requests *)

\* debits requested in one run of the ledger
MaxDebits == 2

\* credits granted per account in one run of the ledger
MaxGrant == 1

Amounts == {-1, 0, 1, 2}

OpeningCredits == {<<>>, <<1>>}

NextLedger ==
    \E p \in Procs :
        \/ \E u \in Ids, c \in OpeningCredits : createUser_call(p, UserInput(u, c, None))
        \/ createUser_store(p)
        \/ \E u \in Ids, a \in Amounts :
              /\ now < MaxDebits
              /\ consumeBacktestCredits_call(p, u, a, "SOL", "rsi")
        \/ consumeBacktestCredits_store(p)
        \/ \E u \in Ids, a \in Amounts :
              /\ audit[u].credited + a <= MaxGrant
              /\ addCredits_call(p, u, a)
        \/ addCredits_store(p)
        \/ Return(p)

SpecLedger == Init /\ [][NextLedger]_vars

-----------------------------------------------------------------------------
(* Properties of the credit ledger *)

IsDone(p, op) == calls[p].pc = "done" /\ calls[p].op = op

DebitOk(p) == IsDone(p, "consumeBacktestCredits") /\ ~calls[p].threw

DebitRefused(p) ==
    /\ IsDone(p, "consumeBacktestCredits")
    /\ calls[p].threw
    /\ calls[p].val = <<"User not found or not enough credits">>

\* process p's request was executed by the store in this step
Executes(p, op) == IsPending(p, op) /\ calls'[p].pc = "done"

\* C1: the credits balance of every account is >= 0 in every reachable state,
\* whatever the interleaving of createUser, debit and credit requests
C1_CreditsNeverNegative == \A u \in DOMAIN db : db[u].credits >= 0

\* two debits of 1 raced for an opening balance of 1: the one requested first
\* was executed last and refused, the other took the balance to 0
C1_Witness ==
    \E p, q \in Procs :
        /\ DebitOk(p) /\ DebitRefused(q)
        /\ calls[p].arg.userId = calls[q].arg.userId
        /\ calls[q].arg.entry.timestamp < calls[p].arg.entry.timestamp
        /\ LET u == calls[p].arg.userId
           IN  /\ u \in DOMAIN db
               /\ audit[u].opening = 1 /\ audit[u].credited = 0
               /\ calls[q].arg.entry.timestamp >= audit[u].openedAt
               /\ db[u].credits = 0

NoDebitInFlight == \A p \in Procs : ~IsPending(p, "consumeBacktestCredits")

\* C2: once every debit has returned, the balance is the opening balance,
\* plus the credits granted, minus the amounts of exactly the debits that
\* reported success
C2_BalanceIsOpeningMinusReported ==
    NoDebitInFlight =>
        \A u \in DOMAIN db :
            db[u].credits = audit[u].opening + audit[u].credited - audit[u].debited

\* two debits of different amounts on one account have both returned success
C2_Witness ==
    /\ NoDebitInFlight
    /\ \E p, q \in Procs :
        /\ DebitOk(p) /\ DebitOk(q)
        /\ calls[p].arg.userId = calls[q].arg.userId
        /\ calls[p].arg.amount = 1 /\ calls[q].arg.amount = 2
        /\ audit[calls[p].arg.userId].debited = 3

\* C3: a successful debit is one step that takes the amount off the balance
\* and prepends its history entry; no step changes the one without the other,
\* and a refused debit changes nothing
C3_DebitIsOneStep ==
    [][ /\ \A u \in DOMAIN db :
             LET d == db[u]
                 e == db'[u]
             IN  /\ e.credits < d.credits =>
                       /\ Len(e.creditHistory) > 0
                       /\ Head(e.creditHistory).creditsUsed = d.credits - e.credits
                       /\ e.creditHistory =
                              SubSeq(<<Head(e.creditHistory)>> \o d.creditHistory,
                                     1, Len(e.creditHistory))
                       /\ Len(e.creditHistory) = Min(Len(d.creditHistory) + 1, HistoryCap)
                 /\ e.creditHistory # d.creditHistory =>
                       /\ Len(e.creditHistory) > 0
                       /\ e.credits = d.credits - Head(e.creditHistory).creditsUsed
        /\ \A p \in Procs :
             Executes(p, "consumeBacktestCredits") =>
                 LET arg == calls[p].arg
                     u   == arg.userId
                 IN  IF calls'[p].threw
                     THEN db' = db
                     ELSE /\ db'[u].credits = db[u].credits - arg.amount
                          /\ Head(db'[u].creditHistory) =
                                 [coin |-> arg.coin, strategy |-> arg.strategy,
                                  creditsUsed |-> arg.amount,
                                  timestamp |-> arg.entry.timestamp]
      ]_vars

\* one debit was applied (its entry heads the history) and another was refused
C3_Witness ==
    \E p, q \in Procs :
        /\ DebitOk(p) /\ DebitRefused(q)
        /\ LET u == calls[p].arg.userId
           IN  /\ calls[q].arg.userId = u
               /\ Len(db[u].creditHistory) = 1
               /\ Head(db[u].creditHistory) = calls[p].arg.entry
               /\ db[u].credits = audit[u].opening - calls[p].arg.amount

AmountOps == {"consumeBacktestCredits", "addCredits"}

RejectedAmount(c) ==
    /\ c.pc = "done"
    /\ c.threw
    /\ c.val = <<"Amount must be > 0">>

\* C5: a debit or a credit with amount <= 0 fails at once with the
\* invalid-amount error, whether or not the account exists, and changes no
\* account
C5_NonPositiveAmountRejected ==
    [][ \A p \in Procs :
          ( /\ calls'[p] # calls[p]
            /\ calls'[p].pc # "idle"
            /\ calls'[p].op \in AmountOps
            /\ calls'[p].arg.amount <= 0 )
          => /\ RejectedAmount(calls'[p])
             /\ db' = db
      ]_vars

\* a debit of 0 on an existing account and a credit of -1 on an absent one
\* have both been rejected
C5_Witness ==
    \E p, q \in Procs :
        /\ IsDone(p, "consumeBacktestCredits") /\ RejectedAmount(calls[p])
        /\ calls[p].arg.amount = 0 /\ calls[p].arg.userId \in DOMAIN db
        /\ IsDone(q, "addCredits") /\ RejectedAmount(calls[q])
        /\ calls[q].arg.amount = -1 /\ calls[q].arg.userId \notin DOMAIN db

\* C6 as claimed: a debit refused for an insufficient balance on an existing
\* account has an outcome different from that of a debit on an absent account
C6_InsufficientDiffersFromNotFound ==
    [][ \A p, q \in Procs :
          ( /\ Executes(p, "consumeBacktestCredits")
            /\ calls[p].arg.userId \in DOMAIN db
            /\ db[calls[p].arg.userId].credits < calls[p].arg.amount
            /\ IsDone(q, "consumeBacktestCredits")
            /\ calls[q].arg.amount > 0
            /\ calls[q].arg.userId \notin DOMAIN db )
          => /\ calls'[p].threw
             /\ calls'[p].val # calls[q].val
             /\ db' = db
      ]_vars

\* C6 as amended: a debit with amount > 0 on an existing account whose balance
\* is below the amount fails with "User not found or not enough credits", the
\* outcome of a debit on an absent account, and changes no account
C6_InsufficientRefused ==
    [][ \A p \in Procs :
          Executes(p, "consumeBacktestCredits") =>
              LET arg == calls[p].arg
                  u   == arg.userId
              IN  /\ (u \in DOMAIN db /\ db[u].credits < arg.amount) =>
                        /\ calls'[p].threw
                        /\ calls'[p].val = <<"User not found or not enough credits">>
                        /\ db' = db
                  /\ u \notin DOMAIN db =>
                        /\ calls'[p].threw
                        /\ calls'[p].val = <<"User not found or not enough credits">>
                        /\ db' = db
      ]_vars

\* a debit of 2 requested after the account was opened with 1 credit, never
\* topped up, was refused
C6_Witness ==
    \E p \in Procs :
        /\ DebitRefused(p)
        /\ LET u == calls[p].arg.userId
           IN  /\ u \in DOMAIN db
               /\ audit[u].opening = 1 /\ audit[u].credited = 0 /\ audit[u].debited = 0
               /\ calls[p].arg.amount = 2
               /\ calls[p].arg.entry.timestamp > audit[u].openedAt
               /\ db[u].credits = 1 /\ db[u].creditHistory = <<>>

-----------------------------------------------------------------------------
(* The credit history over a long run of debits on one account: one caller *)
(* that debits one credit at a time while the balance allows (refused      *)
(* debits are the ledger's runs above) and is granted credits in fives     *)

\* debits requested in one run of the history
MaxHistoryDebits == 52

\* credits granted in one run of the history
MaxHistoryGrant == 45

NextHistory ==
    \/ createUser_call("p1", UserInput("u1", <<>>, None))
    \/ createUser_store("p1")
    \/ /\ now < MaxHistoryDebits
       /\ "u1" \in DOMAIN db /\ db["u1"].credits >= 1
       /\ consumeBacktestCredits_call("p1", "u1", 1, "SOL", "rsi")
    \/ consumeBacktestCredits_store("p1")
    \/ /\ audit["u1"].credited + 5 <= MaxHistoryGrant
       /\ addCredits_call("p1", "u1", 5)
    \/ addCredits_store("p1")
    \/ Return("p1")

SpecHistory == Init /\ [][NextHistory]_vars

\* C4: creditHistory never holds more than 50 entries, and after n successful
\* debits it is the min(n, 50) most recent of them, newest first
C4_HistoryIsLatestFifty ==
    \A u \in DOMAIN db :
        /\ Len(db[u].creditHistory) <= HistoryCap
        /\ db[u].creditHistory =
               SubSeq(audit[u].applied, 1, Min(Len(audit[u].applied), HistoryCap))

\* the 51st debit has been applied: the history holds the 50 latest entries
\* and the first debit's entry is gone
C4_Witness ==
    /\ "u1" \in DOMAIN db
    /\ Len(audit["u1"].applied) = HistoryCap + 1
    /\ Len(db["u1"].creditHistory) = HistoryCap
    /\ Head(db["u1"].creditHistory) = Head(audit["u1"].applied)
    /\ db["u1"].creditHistory[HistoryCap] = audit["u1"].applied[HistoryCap]
    /\ \A i \in 1..HistoryCap :
           db["u1"].creditHistory[i] # audit["u1"].applied[HistoryCap + 1]

-----------------------------------------------------------------------------
(* Usernames under concurrent requests *)

NameBob == <<"b", "o", "b">>

\* names as typed: valid ones (two equal up to case, one padded, one of the
\* maximal length), malformed ones (too short, too long, a character outside
\* the class, empty) and the letter-case variants of a reserved word
Names ==
    { NameBob,
      <<"B", "o", "b">>,
      <<" ", "b", "o", "b", " ">>,
      Rep("x", UsernameMaxLen),
      <<"a", "b">>,
      Rep("x", UsernameMaxLen + 1),
      <<"b", "o", "-", "b">>,
      <<>>,
      <<"a", "d", "m", "i", "n">>,
      <<"A", "d", "m", "i", "n">>,
      <<"A", "D", "M", "I", "N">> }

\* the username the identity provider may deliver with an event
ProviderNames == {None, <<"B", "o", "b">>}

\* a wallet address: 44 base58 characters
WalletA == Rep("A", WalletMaxLen)

NextNames ==
    \E p \in Procs :
        \/ \E u \in Ids, n \in ProviderNames : createUser_call(p, UserInput(u, <<>>, n))
        \/ createUser_store(p)
        \/ \E u \in Ids : setSolanaWallet_call(p, u, WalletA)
        \/ setSolanaWallet_store(p)
        \/ \E u \in Ids, n \in Names : setUsername_call(p, u, n)
        \/ setUsername_store(p)
        \/ \E n \in Names : isUsernameAvailable_call(p, n)
        \/ isUsernameAvailable_store(p)
        \/ Return(p)

SpecNames == Init /\ [][NextNames]_vars

-----------------------------------------------------------------------------
(* Properties of usernames *)

\* the request process p holds after this step was made or finished by it
Acted(p, op) ==
    /\ calls'[p] # calls[p]
    /\ calls'[p].pc # "idle"
    /\ calls'[p].op = op

UsernamesUnique ==
    \A u, v \in DOMAIN db :
        (u # v /\ db[u].usernameLower # None) => db[u].usernameLower # db[v].usernameLower

\* the name is held, up to case, by an account other than u
HeldByOther(u, raw) ==
    \E v \in DOMAIN db \ {u} : db[v].usernameLower = ToLowerCase(Trim(raw))

\* C7: no two accounts ever have the same usernameLower; a setUsername that
\* reaches the store for an existing account succeeds exactly when no other
\* account holds the name up to case, and otherwise fails with "taken" and
\* the account keeps its username
C7_UsernamesUniqueUpToCase ==
    /\ []UsernamesUnique
    /\ [][ \A p \in Procs :
             (Executes(p, "setUsername") /\ calls[p].arg.userId \in DOMAIN db) =>
                 LET u   == calls[p].arg.userId
                     raw == calls[p].arg.desiredRaw
                 IN  IF HeldByOther(u, raw)
                     THEN /\ calls'[p].threw
                          /\ calls'[p].val = TakenMsg
                          /\ db' = db
                     ELSE /\ ~calls'[p].threw
                          /\ db'[u].username = Trim(raw)
                          /\ db'[u].usernameLower = ToLowerCase(Trim(raw))
         ]_vars

\* two accounts asked for names equal up to case: one holds the name, the
\* other was told "taken" and has no username
C7_Witness ==
    \E p, q \in Procs :
        /\ IsDone(p, "setUsername") /\ ~calls[p].threw
        /\ IsDone(q, "setUsername") /\ calls[q].threw /\ calls[q].val = TakenMsg
        /\ calls[p].arg.userId # calls[q].arg.userId
        /\ calls[p].arg.desiredRaw # calls[q].arg.desiredRaw
        /\ ToLowerCase(Trim(calls[p].arg.desiredRaw)) = ToLowerCase(Trim(calls[q].arg.desiredRaw))
        /\ calls[q].arg.userId \in DOMAIN db
        /\ db[calls[p].arg.userId].username = Trim(calls[p].arg.desiredRaw)
        /\ db[calls[q].arg.userId].username = None

\* the format rule: 3 to 20 letters, digits or underscores
FollowsFormat(name) ==
    /\ Len(name) \in 3..20
    /\ Range(name) \subseteq
           Range(UpperChars) \cup Range(LowerChars) \cup Range(DigitChars) \cup {"_"}

\* C8: setUsername with a name that, trimmed, breaks the format rule or, in
\* lower case, is a reserved word fails with the format or the reserved
\* error and changes no account
C8_BadUsernameRejected ==
    [][ \A p \in Procs :
          Acted(p, "setUsername") =>
              LET name == Trim(calls'[p].arg.desiredRaw)
              IN  /\ ~FollowsFormat(name) =>
                        /\ calls'[p].pc = "done" /\ calls'[p].threw
                        /\ calls'[p].val = FormatMsg
                        /\ db' = db
                  /\ (FollowsFormat(name) /\ ToLowerCase(name) \in RESERVED) =>
                        /\ calls'[p].pc = "done" /\ calls'[p].threw
                        /\ calls'[p].val = ReservedMsg
                        /\ db' = db
      ]_vars

\* an existing account was refused "ADMIN" as reserved and a name of 21
\* characters as malformed
C8_Witness ==
    \E p, q \in Procs :
        /\ IsDone(p, "setUsername") /\ IsDone(q, "setUsername")
        /\ calls[p].arg.userId \in DOMAIN db
        /\ calls[p].arg.desiredRaw = <<"A", "D", "M", "I", "N">>
        /\ calls[p].threw /\ calls[p].val = ReservedMsg
        /\ Len(calls[q].arg.desiredRaw) = 21
        /\ calls[q].threw /\ calls[q].val = FormatMsg

\* isUsernameAvailable and setUsername agree on a name for account u
Mirrors(u, n) ==
    LET answer   == isUsernameAvailable(db, n)
        outcomes == setUsername(db, u, n)
    IN  /\ answer = <<"ok">> <=> outcomes = {<<"UserDTO">>}
        /\ answer # <<"ok">> => outcomes = {Tail(answer)}

HoldsName(u, n) == db[u].usernameLower = ToLowerCase(Trim(n))

-----------------------------------------------------------------------------
(* Wallet claims under concurrent requests *)

WalletB == Rep("B", WalletMinLen)

\* addresses as submitted: two valid ones, one padded, and malformed ones
\* (too short, too long, a character outside base58, empty)
Addresses ==
    { WalletA,
      WalletB,
      <<" ">> \o WalletA,
      Rep("A", WalletMinLen - 1),
      Rep("A", WalletMaxLen + 1),
      Rep("A", WalletMinLen) \o <<"O">>,
      <<>> }

NextWallet ==
    \E p \in Procs :
        \/ \E u \in Ids : createUser_call(p, UserInput(u, <<>>, None))
        \/ createUser_store(p)
        \/ \E u \in Ids, a \in Addresses : setSolanaWallet_call(p, u, a)
        \/ setSolanaWallet_store(p)
        \/ \E u \in Ids : clearSolanaWallet_call(p, u)
        \/ clearSolanaWallet_store(p)
        \/ Return(p)

SpecWallet == Init /\ [][NextWallet]_vars

WalletsUnique ==
    \A u, v \in DOMAIN db :
        (u # v /\ db[u].solanaWallet # <<>>) => db[u].solanaWallet # db[v].solanaWallet

\* 43 or 44 base58 characters
IsBase58Address(a) ==
    /\ Len(a) \in 43..44
    /\ Range(a) \subseteq Base58Chars

WalletsWellFormed ==
    \A u \in DOMAIN db : db[u].solanaWallet = <<>> \/ IsBase58Address(db[u].solanaWallet)

\* C10: no two accounts ever hold the same non-empty wallet and every stored
\* wallet is empty or a 43-44 character base58 address; setSolanaWallet with
\* a malformed address fails with the format error and changes nothing, and
\* with an address another account holds it fails with "already connected"
\* and changes nothing
C10_WalletClaimsUnique ==
    /\ [](WalletsUnique /\ WalletsWellFormed)
    /\ [][ \A p \in Procs :
             /\ Acted(p, "setSolanaWallet") =>
                    (~IsBase58Address(Trim(calls'[p].arg.addressRaw)) =>
                        /\ calls'[p].pc = "done" /\ calls'[p].threw
                        /\ calls'[p].val = WalletFormatMsg
                        /\ db' = db)
             /\ ( /\ Executes(p, "setSolanaWallet")
                  /\ calls[p].arg.userId \in DOMAIN db
                  /\ \E v \in DOMAIN db \ {calls[p].arg.userId} :
                        db[v].solanaWallet = Trim(calls[p].arg.addressRaw) )
                => /\ calls'[p].threw
                   /\ calls'[p].val = WalletTakenMsg
                   /\ db' = db
         ]_vars

\* two accounts hold different wallets; one asked for the other's and was
\* told it is already connected, and a malformed address was rejected
C10_Witness ==
    \E p, q \in Procs :
        /\ IsDone(p, "setSolanaWallet") /\ calls[p].threw /\ calls[p].val = WalletTakenMsg
        /\ IsDone(q, "setSolanaWallet") /\ calls[q].threw /\ calls[q].val = WalletFormatMsg
        /\ LET u == calls[p].arg.userId
           IN  /\ u \in DOMAIN db
               /\ db[u].solanaWallet = WalletB
               /\ \E v \in DOMAIN db \ {u} :
                     /\ db[v].solanaWallet = WalletA
                     /\ Trim(calls[p].arg.addressRaw) = WalletA

\* a clearSolanaWallet or setSolanaWallet that the store executed and that
\* returned the document
Succeeds(p, op) == Executes(p, op) /\ ~calls'[p].threw

HoldsWallet(store, w) == \E v \in DOMAIN store : store[v].solanaWallet = w

C12_EmptyWalletNeverCollides ==
    [][ \A p \in Procs :
          /\ ( Executes(p, "clearSolanaWallet") /\ calls[p].arg.userId \in DOMAIN db )
             => /\ ~calls'[p].threw
                /\ db'[calls[p].arg.userId].solanaWallet = <<>>
          /\ ( Executes(p, "createUser") /\ calls[p].arg.clerkId \notin DOMAIN db )
             => /\ ~calls'[p].threw
                /\ calls[p].arg.clerkId \in DOMAIN db'
                /\ db'[calls[p].arg.clerkId].solanaWallet = <<>>
      ]_vars

-----------------------------------------------------------------------------
(* Identity sync: POST of app/api/webhooks/clerk/route.ts *)

SvixHeaders == {"svix-id", "svix-timestamp", "svix-signature"}

\* new Response(body, { status }) and NextResponse.json: status and message
Response(status, body) == <<status, body>>

MissingHeaders == Response("400", "Error: Missing Svix headers")

InvalidSignature == Response("400", "Invalid webhook signature")

MissingId == Response("400", "Missing Clerk user id")

NoPrimaryEmail == Response("400", "No primary email")

UserCreated == Response("200", "User created")

UserUpdated == Response("200", "User updated")

EmptyOk == Response("200", "")

InternalError == Response("500", "Internal server error")

\* the address with the primary id, else the first of the list, else null
getPrimaryEmailFromEvent(data) ==
    LET list      == data.email_addresses
        primaryId == data.primary_email_address_id
        found     == { i \in DOMAIN list : list[i].id = primaryId }
        first     == CHOOSE i \in found : \A j \in found : i <= j
        byId      == IF primaryId # Undef /\ found # {}
                     THEN list[first].email_address ELSE <<>>
    IN  IF byId # <<>> THEN byId
        ELSE IF list # <<>> /\ list[1].email_address # <<>> THEN list[1].email_address
        ELSE None

\* data.username?.trim() || null
maybeUsername(data) ==
    IF data.username = None \/ Trim(data.username) = <<>> THEN None ELSE Trim(data.username)

\* x || ""
OrEmpty(x) == IF x = Undef THEN "" ELSE x

\* basePayload: no username and no credits
basePayload(data) ==
    [ clerkId          |-> data.id,
      email            |-> getPrimaryEmailFromEvent(data),
      firstName        |-> OrEmpty(data.first_name),
      lastName         |-> OrEmpty(data.last_name),
      subscriptionTier |-> "free",
      customerId       |-> "",
      credits          |-> <<>>,
      username         |-> None ]

\* { ...basePayload, username: maybeUsername }
fullPayload(data) == [basePayload(data) EXCEPT !.username = maybeUsername(data)]

UpsertEvents == {"user.created", "user.updated"}

\* the message of the success response
SyncedResponse(type) == IF type = "user.created" THEN UserCreated ELSE UserUpdated

\* mutant of the header check: the signature header alone is required
HeadersPresent_SignatureOnly(req) == "svix-signature" \in req.headers

\* svixId && svixTimestamp && svixSignature
HeadersPresent(req) == req.headers = SvixHeaders

\* mutant of the payload checks: the e-mail address is not looked at
PayloadResponse_NoEmailCheck(type, data) ==
    IF type \in UpsertEvents /\ data.id = Undef THEN MissingId
    ELSE IF type = "user.deleted" /\ data.id = Undef THEN EmptyOk
    ELSE IF type \notin UpsertEvents \cup {"user.deleted"} THEN EmptyOk
    ELSE <<>>

\* the response the handler gives to a verified event without a store round
\* trip; <<>> when the event goes on to the store
PayloadResponse(type, data) ==
    IF type \in UpsertEvents
    THEN IF data.id = Undef THEN MissingId
         ELSE IF getPrimaryEmailFromEvent(data) = None THEN NoPrimaryEmail
         ELSE <<>>
    ELSE IF type = "user.deleted"
    THEN IF data.id = Undef THEN EmptyOk ELSE <<>>
    ELSE EmptyOk

\* the handler up to its first store round trip; a request is its headers,
\* whether wh.verify accepts its body, and the event the body carries
POST_call(p, req) ==
    /\ calls[p].pc = "idle"
    /\ LET early == IF ~HeadersPresent(req) THEN MissingHeaders
                    ELSE IF ~req.verified THEN InvalidSignature
                    ELSE PayloadResponse(req.type, req.data)
           at    == IF early # <<>> THEN "response"
                    ELSE IF req.type \in UpsertEvents THEN "createUser" ELSE "updateOne"
           arg   == [req |-> req, at |-> at, date |-> now]
       IN  /\ calls' = [calls EXCEPT ![p] =
                IF early # <<>> THEN Returned("POST", arg, early) ELSE Pending("POST", arg)]
    /\ UNCHANGED <<db, now, audit, stripe, client>>

\* e.code === 11000 && (keyPattern.usernameLower || keyPattern.username)
IsUsernameDup(f) == f \in {"usernameLower", "username"}

\* createUser({ ...basePayload, username: maybeUsername }) and its catch
POST_createUser(p) ==
    /\ IsPending(p, "POST")
    /\ calls[p].arg.at = "createUser"
    /\ LET arg  == calls[p].arg
           user == fullPayload(arg.req.data)
           u    == user.clerkId
           dups == UpsertDups(db, user)
       IN  IF dups = {}
           THEN /\ db' = Put(db, u, UpsertedDoc(db, user))
                /\ calls' = [calls EXCEPT ![p] =
                       Returned("POST", arg, SyncedResponse(arg.req.type))]
                /\ audit' = IF u \notin DOMAIN db
                            THEN [audit EXCEPT ![u] = Opened(db'[u].credits, now)]
                            ELSE audit
           ELSE /\ \E f \in dups :
                     calls' = [calls EXCEPT ![p] =
                         IF IsUsernameDup(f)
                         THEN Pending("POST", [arg EXCEPT !.at = "retry"])
                         ELSE Returned("POST", arg, InternalError)]
                /\ UNCHANGED <<db, audit>>
    /\ UNCHANGED <<now, stripe, client>>

\* createUser(basePayload) in the catch: an error here reaches the outer catch
POST_retry(p) ==
    /\ IsPending(p, "POST")
    /\ calls[p].arg.at = "retry"
    /\ LET arg  == calls[p].arg
           user == basePayload(arg.req.data)
           u    == user.clerkId
           dups == UpsertDups(db, user)
       IN  IF dups = {}
           THEN /\ db' = Put(db, u, UpsertedDoc(db, user))
                /\ calls' = [calls EXCEPT ![p] =
                       Returned("POST", arg, SyncedResponse(arg.req.type))]
                /\ audit' = IF u \notin DOMAIN db
                            THEN [audit EXCEPT ![u] = Opened(db'[u].credits, now)]
                            ELSE audit
           ELSE /\ calls' = [calls EXCEPT ![p] = Returned("POST", arg, InternalError)]
                /\ UNCHANGED <<db, audit>>
    /\ UNCHANGED <<now, stripe, client>>

\* mutant of the soft delete: the document is replaced by an empty one
SoftDelete_Wipe(doc, date) == [NewDoc(<<>>, "", "", "free", "", 0) EXCEPT !.deletedAt = <<date>>]

\* $set: { deletedAt: new Date() }
SoftDelete(doc, date) == [doc EXCEPT !.deletedAt = <<date>>]

\* User.updateOne({ clerkId }, { $set: { deletedAt } }) in its try/catch: the
\* update resolves, having matched a document or none, or it rejects and
\* the handler logs a warning; the response is the same
POST_updateOne(p) ==
    /\ IsPending(p, "POST")
    /\ calls[p].arg.at = "updateOne"
    /\ LET arg == calls[p].arg
           u   == arg.req.data.id
       IN  \/ /\ db' = IF u \in DOMAIN db THEN Put(db, u, SoftDelete(db[u], arg.date)) ELSE db
              /\ calls' = [calls EXCEPT ![p] = Returned("POST", arg, EmptyOk)]
           \/ /\ db' = db
              /\ calls' = [calls EXCEPT ![p] =
                     Returned("POST", [arg EXCEPT !.at = "warn"], EmptyOk)]
    /\ UNCHANGED <<now, audit, stripe, client>>

-----------------------------------------------------------------------------
(* Identity sync under redelivery and concurrent requests *)

\* debits in one run of the sync
MaxSyncDebits == 1

\* a second address of account u1 at the identity provider
AltEmail == <<"c", "@", "x">>

\* the user name the identity provider holds for an id: the two collide up
\* to case and white space
ProviderName(u) == IF u = "u1" THEN <<"B", "o", "b", " ">> ELSE <<"b", "o", "b">>

\* the data of an event about id u: user.created carries the first name and
\* the primary address, user.updated no first name and a second address that
\* is not the primary one
EventData(type, u, username) ==
    [ id                       |-> u,
      email_addresses          |->
          IF type = "user.updated"
          THEN << [id |-> "e2", email_address |-> AltEmail],
                  [id |-> "e1", email_address |-> EmailOf(u)] >>
          ELSE << [id |-> "e1", email_address |-> EmailOf(u)] >>,
      primary_email_address_id |-> "e1",
      first_name               |-> IF type = "user.created" THEN "Ann" ELSE Undef,
      last_name                |-> "Last",
      username                 |-> username ]

Request(headers, verified, type, data) ==
    [headers |-> headers, verified |-> verified, type |-> type, data |-> data]

\* verified events about the two accounts: creations and updates of both,
\* the deletion of the first
SyncRequests ==
    { Request(SvixHeaders, TRUE, "user.created", EventData("user.created", u, None)) :
        u \in Ids } \cup
    { Request(SvixHeaders, TRUE, t, EventData(t, u, ProviderName(u))) :
        t \in UpsertEvents, u \in Ids } \cup
    { Request(SvixHeaders, TRUE, "user.deleted", EventData("user.deleted", "u1", None)) }

\* verified events with a malformed payload, and an event of another type
MalformedRequests ==
    { Request(SvixHeaders, TRUE, t, EventData(t, Undef, None)) :
        t \in UpsertEvents \cup {"user.deleted"} } \cup
    { Request(SvixHeaders, TRUE, t,
              [EventData(t, "u1", None) EXCEPT !.email_addresses = <<>>]) :
        t \in UpsertEvents } \cup
    { Request(SvixHeaders, TRUE, "session.created", EventData("session.created", "u1", None)) }

\* requests that lack a header or that wh.verify refuses
UnsignedRequests ==
    { Request(SvixHeaders \ {h}, TRUE, "user.created", EventData("user.created", "u1", None)) :
        h \in SvixHeaders } \cup
    { Request(SvixHeaders, FALSE, "user.deleted", EventData("user.deleted", "u1", None)) }

NextSync ==
    \E p \in Procs :
        \/ \E req \in SyncRequests : POST_call(p, req)
        \/ /\ p = "p1"
           /\ \E req \in MalformedRequests \cup UnsignedRequests : POST_call(p, req)
        \/ POST_createUser(p)
        \/ POST_retry(p)
        \/ POST_updateOne(p)
        \/ /\ p = "p1"
           /\ setSolanaWallet_call(p, "u1", WalletA)
        \/ setSolanaWallet_store(p)
        \/ /\ p = "p1"
           /\ now < MaxSyncDebits
           /\ consumeBacktestCredits_call(p, "u1", 1, "SOL", "rsi")
        \/ consumeBacktestCredits_store(p)
        \/ Return(p)

SpecSync == Init /\ [][NextSync]_vars

-----------------------------------------------------------------------------
(* Properties of the identity sync *)

\* process p takes a step of the handler that is in the store round trip at
Steps(p, at) ==
    /\ IsPending(p, "POST")
    /\ calls[p].arg.at = at
    /\ calls'[p] # calls[p]

\* the handler of process p answers a user.created / user.updated event
\* with its success response
Synced(p) ==
    /\ Executes(p, "POST")
    /\ calls[p].arg.req.type \in UpsertEvents
    /\ calls'[p].val = SyncedResponse(calls[p].arg.req.type)

\* the store after the handler has processed the event once more, nothing
\* else happening in between: the upsert with the user name, or the retry
\* without it after a user-name collision, or no write
Replayed(store, data) ==
    LET full == fullPayload(data)
        base == basePayload(data)
    IN  IF UpsertDups(store, full) = {}
        THEN Put(store, data.id, UpsertedDoc(store, full))
        ELSE IF /\ \E f \in UpsertDups(store, full) : IsUsernameDup(f)
                /\ UpsertDups(store, base) = {}
        THEN Put(store, data.id, UpsertedDoc(store, base))
        ELSE store

\* C13: identity sync is idempotent under redelivery.  When the handler has
\* synced a user.created / user.updated event, the account of the event's id
\* exists, no other account was created or changed, an account that existed
\* keeps its credits, creditHistory and topCoins, and processing the same
\* event again leaves every account as it is
C13_SyncIsIdempotent ==
    [][ \A p \in Procs :
          Synced(p) =>
            LET data == calls[p].arg.req.data
                u    == data.id
            IN  /\ DOMAIN db' = DOMAIN db \cup {u}
                /\ \A v \in DOMAIN db \ {u} : db'[v] = db[v]
                /\ u \in DOMAIN db =>
                      /\ db'[u].credits = db[u].credits
                      /\ db'[u].creditHistory = db[u].creditHistory
                      /\ db'[u].topCoins = db[u].topCoins
                /\ Replayed(db', data) = db'
      ]_vars

\* the same user.created event for u1 was synced twice, the second time
\* after a debit: the account has the debit's balance and history entry
C13_Witness ==
    /\ \A p \in Procs :
          /\ IsDone(p, "POST")
          /\ calls[p].val = UserCreated
          /\ calls[p].arg.req.data = EventData("user.created", "u1", ProviderName("u1"))
    /\ db["u1"].credits = DefaultCredits - 1
    /\ Len(db["u1"].creditHistory) = 1
    /\ db["u1"].username = <<"B", "o", "b">>
    /\ audit["u1"].openedAt <= db["u1"].creditHistory[1].timestamp

\* the event of process p carries a user name that another account holds
\* up to case
CarriesHeldName(p) ==
    LET data == calls[p].arg.req.data
    IN  /\ maybeUsername(data) # None
        /\ HeldByOther(data.id, maybeUsername(data))

\* the account of the event's id has the profile of the event
HasProfileOf(doc, data) ==
    /\ doc.email = Trim(ToLowerCase(getPrimaryEmailFromEvent(data)))
    /\ doc.firstName = OrEmpty(data.first_name)
    /\ doc.lastName = OrEmpty(data.last_name)

\* C15: a user-name collision does not block the sync.  When the event
\* carries a user name another account holds up to case, the first upsert
\* writes nothing and the handler retries, once, without the user name; the
\* retry answers with the success response, the account exists with the
\* e-mail address and names of the event, and every other account is as it
\* was
C15_UsernameCollisionDoesNotBlockSync ==
    [][ \A p \in Procs :
          /\ (Steps(p, "createUser") /\ CarriesHeldName(p))
             => /\ IsPending(p, "POST")'
                /\ calls'[p].arg.at = "retry"
                /\ db' = db
          /\ Steps(p, "retry")
             => LET data == calls[p].arg.req.data
                IN  /\ calls'[p].pc = "done"
                    /\ calls'[p].val = SyncedResponse(calls[p].arg.req.type)
                    /\ data.id \in DOMAIN db'
                    /\ HasProfileOf(db'[data.id], data)
                    /\ \A v \in DOMAIN db \ {data.id} : db'[v] = db[v]
      ]_vars

\* the upsert for id u does not run into the index on solanaWallet: the
\* account exists, or no other account has the empty wallet
NoWalletClash(u) ==
    \/ u \in DOMAIN db
    \/ \A v \in DOMAIN db : db[v].solanaWallet # <<>>

\* what holds of the retry: where the upsert does not run into the index on
\* solanaWallet, a user-name collision leads to the retry and the retry
\* syncs the profile without the user name
C15_CollisionWithoutWalletClash ==
    [][ \A p \in Procs :
          LET data == calls[p].arg.req.data
          IN  /\ (Steps(p, "createUser") /\ CarriesHeldName(p) /\ NoWalletClash(data.id))
                 => /\ IsPending(p, "POST")'
                    /\ calls'[p].arg.at = "retry"
                    /\ db' = db
              /\ (Steps(p, "retry") /\ NoWalletClash(data.id))
                 => /\ calls'[p].pc = "done"
                    /\ calls'[p].val = SyncedResponse(calls[p].arg.req.type)
                    /\ HasProfileOf(db'[data.id], data)
                    /\ data.id \in DOMAIN db =>
                          db'[data.id].usernameLower = db[data.id].usernameLower
                    /\ \A v \in DOMAIN db \ {data.id} : db'[v] = db[v]
      ]_vars

\* a request that lacks a header or that wh.verify refuses
Unsigned(req) == req.headers # SvixHeaders \/ ~req.verified

\* C17: a request without the three signature headers, or whose signature
\* fails verification, is answered with status 400 and nothing is written;
\* the handler is in a store round trip only for a verified request
C17_UnsignedRejected ==
    /\ [](\A p \in Procs :
            IsPending(p, "POST") => ~Unsigned(calls[p].arg.req))
    /\ [][ \A p \in Procs :
             (Acted(p, "POST") /\ Unsigned(calls'[p].arg.req))
                => /\ calls'[p].pc = "done"
                   /\ calls'[p].val[1] = "400"
                   /\ calls'[p].val =
                         IF calls'[p].arg.req.headers # SvixHeaders
                         THEN MissingHeaders ELSE InvalidSignature
                   /\ db' = db
         ]_vars

\* a request without the svix-id header was answered with 400 while the
\* other process has synced a verified event, and an account exists
C17_Witness ==
    /\ IsDone("p1", "POST")
    /\ calls["p1"].arg.req.headers = SvixHeaders \ {"svix-id"}
    /\ calls["p1"].val = MissingHeaders
    /\ IsDone("p2", "POST")
    /\ calls["p2"].val = UserCreated
    /\ DOMAIN db # {}

\* the payload of a verified event lacks the id, or the e-mail address a
\* user.created / user.updated event needs
Malformed(req) ==
    /\ ~Unsigned(req)
    /\ req.type \in UpsertEvents \cup {"user.deleted"}
    /\ \/ req.data.id = Undef
       \/ req.type \in UpsertEvents /\ getPrimaryEmailFromEvent(req.data) = None

\* C18 as stated: a verified event with a malformed payload is answered with
\* a rejection (a status other than 200) and nothing is written, for
\* user.created, user.updated and user.deleted alike
C18_MalformedRejected ==
    [][ \A p \in Procs :
          (Acted(p, "POST") /\ Malformed(calls'[p].arg.req))
             => /\ calls'[p].pc = "done"
                /\ calls'[p].val[1] # "200"
                /\ db' = db
      ]_vars

\* C18: a verified event with a malformed payload ends without a store round
\* trip and nothing is written; a user.created / user.updated event is
\* answered with status 400 (missing id, or no primary e-mail address), a
\* user.deleted event without id with the empty 200 response
C18_MalformedShortCircuits ==
    [][ \A p \in Procs :
          (Acted(p, "POST") /\ Malformed(calls'[p].arg.req))
             => LET req == calls'[p].arg.req
                IN  /\ calls'[p].pc = "done"
                    /\ calls[p].pc = "idle"
                    /\ db' = db
                    /\ calls'[p].val =
                          IF req.type = "user.deleted" THEN EmptyOk
                          ELSE IF req.data.id = Undef THEN MissingId
                          ELSE NoPrimaryEmail
      ]_vars

\* a user.updated event without e-mail address was answered with 400 while
\* the account it is about exists
C18_Witness ==
    /\ IsDone("p1", "POST")
    /\ calls["p1"].arg.req.type = "user.updated"
    /\ calls["p1"].arg.req.data.id = "u1"
    /\ calls["p1"].val = NoPrimaryEmail
    /\ "u1" \in DOMAIN db

-----------------------------------------------------------------------------
(* Top coins *)

MaxTopCoins == 3

TooManyCoinsMsg == <<"Only 3 coins can be selected">>

\* a write that adds the given coins to the stored ones
TopCoinsUpdate_Append(doc, topCoins) ==
    [doc EXCEPT !.topCoins = doc.topCoins \o topCoins]

\* { topCoins }
TopCoinsUpdate(doc, topCoins) == [doc EXCEPT !.topCoins = topCoins]

updateUserTopCoins_call(p, userId, topCoins) ==
    /\ calls[p].pc = "idle"
    /\ LET arg == [userId |-> userId, topCoins |-> topCoins]
       IN  calls' = [calls EXCEPT ![p] =
               IF Len(topCoins) > MaxTopCoins
               THEN Threw("updateUserTopCoins", arg, TooManyCoinsMsg)
               ELSE Pending("updateUserTopCoins", arg)]
    /\ UNCHANGED <<db, now, audit, stripe, client>>

updateUserTopCoins_store(p) ==
    /\ IsPending(p, "updateUserTopCoins")
    /\ LET arg == calls[p].arg
           u   == arg.userId
       IN  IF u \notin DOMAIN db
           THEN /\ calls' = [calls EXCEPT ![p] = Threw("updateUserTopCoins", arg, NotFoundMsg)]
                /\ UNCHANGED db
           ELSE /\ db' = Put(db, u, TopCoinsUpdate(db[u], arg.topCoins))
                /\ calls' = [calls EXCEPT ![p] =
                       Returned("updateUserTopCoins", arg, arg.topCoins)]
    /\ UNCHANGED <<now, audit, stripe, client>>

-----------------------------------------------------------------------------
(* Billing: subscribe of actions/stripe.actions.ts *)

\* the ids the billing provider gives the customers it creates, in order
CustomerIds == <<"cus_1", "cus_2", "cus_3", "cus_4">>

\* the prices the billing provider knows
Prices == {"price_basic"}

MissingParamsMsg == <<"Missing required params">>

\* Failed to create subscription: ${error.message}
Failed(msg) == <<"Failed to create subscription: ">> \o msg

\* the message of an error of the billing provider's API
StripeErrorMsg == <<"StripeError">>

\* Invalid price ID: ${priceId}
InvalidPriceMsg(priceId) == <<"Invalid price ID: ", priceId>>

\* stripe.customers.list({ email, limit: 1 }): the customers with that
\* e-mail address, the most recently created first, cut to one
ListedCustomer(customers, email) ==
    LET found == { i \in DOMAIN customers : customers[i] = email }
    IN  IF found = {} THEN ""
        ELSE CustomerIds[CHOOSE i \in found : \A j \in found : j <= i]

\* mutant of the price validation: every price id passes
PriceExists_Any(priceId) == TRUE

\* stripe.prices.retrieve(priceId) finds the price
PriceExists(priceId) == priceId \in Prices

\* mutant of the account update: the customer id is not written
CustomerUpdate_Skip(doc, customerId) == doc

\* { customerId }
CustomerUpdate(doc, customerId) == [doc EXCEPT !.customerId = customerId]

\* the document subscribe's upsert leaves under userId: an insert has the
\* schema defaults and no e-mail address
BillingDoc(store, userId, customerId) ==
    IF userId \in DOMAIN store
    THEN CustomerUpdate(store[userId], customerId)
    ELSE CustomerUpdate(NewDoc(None, "", "", "free", "", DefaultCredits), customerId)

\* the unique indexes subscribe's upsert would violate: none for an update,
\* any of them for an insert
BillingDups(store, userId, customerId) ==
    DupKeys(store, userId, BillingDoc(store, userId, customerId),
            IF userId \in DOMAIN store THEN {} ELSE UniqueFields)

\* process p is in subscribe, about to make the call named at
InSubscribe(p, at) == IsPending(p, "subscribe") /\ calls[p].arg.at = at

\* subscribe moves on to its next call
Proceed(p, at, customerId) ==
    calls' = [calls EXCEPT ![p] =
        Pending("subscribe", [calls[p].arg EXCEPT !.at = at, !.customerId = customerId])]

\* the outer catch: the flow ends with one error
Abort(p, msg) ==
    calls' = [calls EXCEPT ![p] = Threw("subscribe", calls[p].arg, Failed(msg))]

subscribe_call(p, userId, email, priceId) ==
    /\ calls[p].pc = "idle"
    /\ LET arg == [userId |-> userId, email |-> email, priceId |-> priceId,
                   at |-> "list", customerId |-> ""]
       IN  calls' = [calls EXCEPT ![p] =
               IF userId = "" \/ email = <<>> \/ priceId = ""
               THEN Threw("subscribe", [arg EXCEPT !.at = "params"], MissingParamsMsg)
               ELSE Pending("subscribe", arg)]
    /\ UNCHANGED <<db, now, audit, stripe, client>>

\* stripe.customers.list
subscribe_list(p) ==
    /\ InSubscribe(p, "list")
    /\ LET found == ListedCustomer(stripe.customers, calls[p].arg.email)
       IN  \/ IF found # "" THEN Proceed(p, "update", found) ELSE Proceed(p, "create", "")
           \/ Abort(p, StripeErrorMsg)
    /\ UNCHANGED <<db, now, audit, stripe, client>>

\* stripe.customers.create
subscribe_create(p) ==
    /\ InSubscribe(p, "create")
    /\ \/ /\ stripe' = [stripe EXCEPT !.customers = Append(@, calls[p].arg.email)]
          /\ Proceed(p, "update", CustomerIds[Len(stripe.customers) + 1])
       \/ /\ Abort(p, StripeErrorMsg)
          /\ UNCHANGED stripe
    /\ UNCHANGED <<db, now, audit, client>>

\* User.findOneAndUpdate({ clerkId: userId }, { customerId }, { upsert })
subscribe_update(p) ==
    /\ InSubscribe(p, "update")
    /\ LET arg  == calls[p].arg
           u    == arg.userId
           dups == BillingDups(db, u, arg.customerId)
       IN  IF dups = {}
           THEN /\ db' = Put(db, u, BillingDoc(db, u, arg.customerId))
                /\ Proceed(p, "price", arg.customerId)
                /\ audit' = IF u \notin DOMAIN db
                            THEN [audit EXCEPT ![u] = Opened(db'[u].credits, now)]
                            ELSE audit
           ELSE /\ \E f \in dups : Abort(p, DupError(f))
                /\ UNCHANGED <<db, audit>>
    /\ UNCHANGED <<now, stripe, client>>

\* stripe.prices.retrieve in its try/catch: whatever makes it reject, the
\* error is the invalid price
subscribe_price(p) ==
    /\ InSubscribe(p, "price")
    /\ \/ /\ PriceExists(calls[p].arg.priceId)
          /\ Proceed(p, "session", calls[p].arg.customerId)
       \/ Abort(p, InvalidPriceMsg(calls[p].arg.priceId))
    /\ UNCHANGED <<db, now, audit, stripe, client>>

\* the session stripe.checkout.sessions.create makes
CheckoutSession(arg) ==
    [ customer |-> arg.customerId,
      price    |-> arg.priceId,
      metadata |-> [userId |-> arg.userId, customerId |-> arg.customerId] ]

\* stripe.checkout.sessions.create and return session.url
subscribe_session(p) ==
    /\ InSubscribe(p, "session")
    /\ \/ /\ stripe' = [stripe EXCEPT !.sessions = Append(@, CheckoutSession(calls[p].arg))]
          /\ calls' = [calls EXCEPT ![p] = Returned("subscribe", calls[p].arg, <<"session.url">>)]
       \/ /\ Abort(p, StripeErrorMsg)
          /\ UNCHANGED stripe
    /\ UNCHANGED <<db, now, audit, client>>

-----------------------------------------------------------------------------
(* Billing under concurrent requests *)

\* checkout sessions in one run of the billing flow
MaxSessions == 1

\* the calls of subscribe: an account with the address of either account,
\* a second account, and a price the billing provider does not know
Subscriptions ==
    { <<"u1", EmailOf("u1"), "price_basic">>,
      <<"u1", EmailOf("u2"), "price_basic">>,
      <<"u2", EmailOf("u2"), "price_basic">>,
      <<"u1", EmailOf("u1"), "price_x">> }

NextBilling ==
    \E p \in Procs :
        \/ /\ Len(stripe.sessions) < MaxSessions
           /\ \E s \in Subscriptions : subscribe_call(p, s[1], s[2], s[3])
        \/ /\ p = "p1"
           /\ \/ subscribe_call(p, "", EmailOf("u1"), "price_basic")
              \/ subscribe_call(p, "u1", <<>>, "price_basic")
              \/ subscribe_call(p, "u1", EmailOf("u1"), "")
        \/ subscribe_list(p)
        \/ subscribe_create(p)
        \/ subscribe_update(p)
        \/ subscribe_price(p)
        \/ subscribe_session(p)
        \/ /\ p = "p1"
           /\ \E u \in Ids : createUser_call(p, UserInput(u, <<>>, None))
        \/ createUser_store(p)
        \/ Return(p)

SpecBilling == Init /\ [][NextBilling]_vars

-----------------------------------------------------------------------------
(* Properties of the billing flow *)

\* process p's call of subscribe makes the step that ends it with an error
Aborts(p) == IsPending(p, "subscribe") /\ calls'[p].pc = "done" /\ calls'[p].threw

\* process p's call of subscribe creates its checkout session
CreatesSession(p) ==
    InSubscribe(p, "session") /\ calls'[p].pc = "done" /\ ~calls'[p].threw

\* C19: a checkout session is requested only after the customer id has been
\* persisted.  Whenever subscribe creates a checkout session for customer c
\* and user id u, the store holds an account for u whose customerId is c, and
\* the metadata of the session is exactly u and c
C19_CustomerPersistedBeforeCheckout ==
    [][ \A p \in Procs :
          CreatesSession(p) =>
            LET u       == calls[p].arg.userId
                session == stripe'.sessions[Len(stripe'.sessions)]
                c       == session.customer
            IN  /\ Len(stripe'.sessions) = Len(stripe.sessions) + 1
                /\ u \in DOMAIN db
                /\ db[u].customerId = c
                /\ session.metadata = [userId |-> u, customerId |-> c]
      ]_vars

\* what holds of the order of the calls: from its price validation on, a
\* call of subscribe has an account for its user id in the store, that
\* account has the id of some customer of the billing provider, and the
\* session it creates is for the call's own customer and user id
C19_AccountExistsBeforeCheckout ==
    /\ [](\A p \in Procs :
            (InSubscribe(p, "price") \/ InSubscribe(p, "session"))
               => /\ calls[p].arg.userId \in DOMAIN db
                  /\ \E i \in DOMAIN stripe.customers :
                        db[calls[p].arg.userId].customerId = CustomerIds[i]
                  /\ \E i \in DOMAIN stripe.customers :
                        calls[p].arg.customerId = CustomerIds[i])
    /\ [][ \A p \in Procs :
             CreatesSession(p) =>
                stripe'.sessions = Append(stripe.sessions, CheckoutSession(calls[p].arg))
         ]_vars

\* the calls of subscribe in their order
CallOrder == <<"list", "create", "update", "price", "session">>

Position(at) == CHOOSE i \in DOMAIN CallOrder : CallOrder[i] = at

\* C20: subscribe with a price the billing provider does not know fails with
\* the invalid-price error and creates no checkout session: every session is
\* for a known price.  A call of subscribe that fails at any of its steps ends
\* there with one error ("Failed to create subscription: ..."), the failing
\* step writes nothing, and after the error the call makes no further step;
\* the steps are made in order
C20_FailureAbortsSubscribe ==
    /\ [](\A i \in DOMAIN stripe.sessions : stripe.sessions[i].price \in Prices)
    /\ [][ \A p \in Procs :
             /\ ( /\ InSubscribe(p, "price")
                  /\ calls'[p] # calls[p]
                  /\ calls[p].arg.priceId \notin Prices )
                => /\ Aborts(p)
                   /\ calls'[p].val = Failed(InvalidPriceMsg(calls[p].arg.priceId))
             /\ Aborts(p)
                => /\ calls'[p].val[1] = "Failed to create subscription: "
                   /\ calls'[p].arg = calls[p].arg
                   /\ db' = db
                   /\ stripe' = stripe
             /\ (IsDone(p, "subscribe") /\ calls'[p] # calls[p])
                => /\ calls'[p] = Idle
                   /\ db' = db
                   /\ stripe' = stripe
             /\ (IsPending(p, "subscribe") /\ IsPending(p, "subscribe")' /\ calls'[p] # calls[p])
                => Position(calls[p].arg.at) < Position(calls'[p].arg.at)
         ]_vars

\* a call of subscribe with an unknown price has failed with the invalid-price
\* error after the customer was created and its id persisted on the account;
\* the other call failed at the account update; there is no checkout session
C20_Witness ==
    /\ IsDone("p1", "subscribe")
    /\ calls["p1"].threw
    /\ calls["p1"].val = Failed(InvalidPriceMsg("price_x"))
    /\ "u1" \in DOMAIN db
    /\ db["u1"].customerId = "cus_1"
    /\ IsDone("p2", "subscribe")
    /\ calls["p2"].threw
    /\ calls["p2"].arg.at = "update"
    /\ stripe.sessions = <<>>

-----------------------------------------------------------------------------
(* The fields of an account over its life: one request at a time *)

\* debits in one run of the account's life
MaxProfileDebits == 1

\* calls of createUser as the webhook makes them, and calls that pass
\* credits, a subscription tier and a customer id of their own
ProfileInputs ==
    { UserInput(u, <<>>, None) : u \in Ids } \cup
    { [UserInput("u1", <<5>>, n) EXCEPT !.firstName = "Ann",
                                         !.subscriptionTier = "basic",
                                         !.customerId = "cus_9"] :
        n \in {None, ProviderName("u1")} }

NextProfile ==
    \/ \E user \in ProfileInputs : createUser_call("p1", user)
    \/ createUser_store("p1")
    \/ /\ now < MaxProfileDebits
       /\ consumeBacktestCredits_call("p1", "u1", 1, "SOL", "rsi")
    \/ consumeBacktestCredits_store("p1")
    \/ setSolanaWallet_call("p1", "u1", WalletA)
    \/ setSolanaWallet_store("p1")
    \/ \E coins \in {<<"BTC", "ETH">>, <<"BTC", "ETH", "SOL", "XRP">>} :
          updateUserTopCoins_call("p1", "u1", coins)
    \/ updateUserTopCoins_store("p1")
    \/ /\ Len(stripe.sessions) < MaxSessions
       /\ subscribe_call("p1", "u1", EmailOf("u1"), "price_basic")
    \/ subscribe_list("p1")
    \/ subscribe_create("p1")
    \/ subscribe_update("p1")
    \/ subscribe_price("p1")
    \/ subscribe_session("p1")
    \/ \E u \in Ids :
          POST_call("p1", Request(SvixHeaders, TRUE, "user.deleted",
                                  EventData("user.deleted", u, None)))
    \/ \E u \in Ids :
          POST_call("p1", Request(SvixHeaders, TRUE, "user.updated",
                                  EventData("user.updated", u, ProviderName(u))))
    \/ POST_createUser("p1")
    \/ POST_retry("p1")
    \/ POST_updateOne("p1")
    \/ Return("p1")

SpecProfile == Init /\ [][NextProfile]_vars

\* the fields createUser's $set never names
KeepsAccountFields(old, new) ==
    /\ new.customerId = old.customerId
    /\ new.subscriptionTier = old.subscriptionTier
    /\ new.credits = old.credits
    /\ new.creditHistory = old.creditHistory
    /\ new.topCoins = old.topCoins
    /\ new.solanaWallet = old.solanaWallet
    /\ new.deletedAt = old.deletedAt

\* the step wrote the profile of the call to the existing account of the
\* call's id and changed nothing else
OnlyProfileWritten(user) ==
    LET u == user.clerkId
    IN  u \in DOMAIN db =>
          /\ DOMAIN db' = DOMAIN db
          /\ \A v \in DOMAIN db \ {u} : db'[v] = db[v]
          /\ KeepsAccountFields(db[u], db'[u])
          /\ db'[u].email = Trim(ToLowerCase(user.email))
          /\ db'[u].firstName = user.firstName
          /\ db'[u].lastName = user.lastName
          /\ IF user.username # None /\ Trim(user.username) # <<>>
             THEN /\ db'[u].username = Trim(user.username)
                  /\ db'[u].usernameLower = ToLowerCase(Trim(user.username))
             ELSE /\ db'[u].username = db[u].username
                  /\ db'[u].usernameLower = db[u].usernameLower

\* C14: createUser on an account that exists writes the e-mail address, the
\* first and last name and, when a user name is supplied, username and
\* usernameLower, and nothing else: customerId, subscriptionTier, credits,
\* creditHistory, topCoins, solanaWallet and deletedAt stay as they are
\* whatever subscriptionTier, customerId or credits the call passes; the
\* same holds of the two calls the webhook makes
C14_UpsertWritesProfileOnly ==
    [][ \A p \in Procs :
          /\ (Executes(p, "createUser") /\ ~calls'[p].threw)
             => OnlyProfileWritten(calls[p].arg)
          /\ (Steps(p, "createUser") /\ Synced(p))
             => OnlyProfileWritten(fullPayload(calls[p].arg.req.data))
          /\ (Steps(p, "retry") /\ Synced(p))
             => OnlyProfileWritten(basePayload(calls[p].arg.req.data))
      ]_vars

\* createUser with credits 5, tier "basic" and customer "cus_9" has returned
\* for an account that was debited, subscribed, given a wallet and top coins
\* and soft-deleted before: the account has the new first name and its own
\* billing, credit, wallet and deletion fields
C14_Witness ==
    /\ IsDone("p1", "createUser")
    /\ ~calls["p1"].threw
    /\ calls["p1"].arg.customerId = "cus_9"
    /\ calls["p1"].arg.credits = <<5>>
    /\ calls["p1"].arg.username = ProviderName("u1")
    /\ "u1" \in DOMAIN db
    /\ db["u1"].firstName = "Ann"
    /\ db["u1"].username = <<"B", "o", "b">>
    /\ db["u1"].customerId = "cus_1"
    /\ db["u1"].subscriptionTier = "free"
    /\ db["u1"].credits = DefaultCredits - 1
    /\ Len(db["u1"].creditHistory) = 1
    /\ db["u1"].topCoins = <<"BTC", "ETH">>
    /\ db["u1"].solanaWallet = WalletA
    /\ db["u1"].deletedAt # NoDate

\* C16: a user.deleted event writes deletedAt of the account of its id and
\* nothing else: every other field of that account and every other account
\* stay as they are, and no account is created; when the update resolves,
\* deletedAt is the date of the event's handling.  For an id without account
\* nothing is written.  The handler answers 200 in every case
C16_DeletionWritesMarkerOnly ==
    [][ \A p \in Procs :
          Steps(p, "updateOne") =>
            LET arg == calls[p].arg
                u   == arg.req.data.id
            IN  /\ calls'[p].pc = "done"
                /\ calls'[p].val = EmptyOk
                /\ DOMAIN db' = DOMAIN db
                /\ \A v \in DOMAIN db \ {u} : db'[v] = db[v]
                /\ u \in DOMAIN db =>
                      /\ db'[u] = [db[u] EXCEPT !.deletedAt = db'[u].deletedAt]
                      /\ db'[u].email = db[u].email
                      /\ db'[u].username = db[u].username
                      /\ db'[u].usernameLower = db[u].usernameLower
                      /\ db'[u].credits = db[u].credits
                      /\ db'[u].creditHistory = db[u].creditHistory
                      /\ db'[u].solanaWallet = db[u].solanaWallet
                      /\ db'[u].customerId = db[u].customerId
                      /\ db'[u].topCoins = db[u].topCoins
                      /\ calls'[p].arg.at = "updateOne" => db'[u].deletedAt = <<arg.date>>
                      /\ calls'[p].arg.at = "warn" => db'[u].deletedAt = db[u].deletedAt
      ]_vars

\* the user.deleted event of an account that has a user name, a debit, a
\* customer, a wallet and top coins was handled: the account has the marker
\* and keeps all of them; the other id has no account
C16_Witness ==
    /\ IsDone("p1", "POST")
    /\ calls["p1"].arg.req.type = "user.deleted"
    /\ calls["p1"].arg.req.data.id = "u1"
    /\ calls["p1"].arg.at = "updateOne"
    /\ calls["p1"].val = EmptyOk
    /\ "u1" \in DOMAIN db
    /\ db["u1"].deletedAt = <<calls["p1"].arg.date>>
    /\ db["u1"].username = <<"B", "o", "b">>
    /\ db["u1"].customerId = "cus_1"
    /\ db["u1"].credits = DefaultCredits - 1
    /\ Len(db["u1"].creditHistory) = 1
    /\ db["u1"].topCoins = <<"BTC", "ETH">>
    /\ db["u1"].solanaWallet = WalletA
    /\ "u2" \notin DOMAIN db

\* the user.deleted event of an id without account was handled with the 200
\* response and the store is empty
C16_WitnessNoAccount ==
    /\ IsDone("p1", "POST")
    /\ calls["p1"].arg.req.type = "user.deleted"
    /\ calls["p1"].val = EmptyOk
    /\ calls["p1"].arg.at = "updateOne"
    /\ DOMAIN db = {}

-----------------------------------------------------------------------------
(* Find-or-create of the billing customer *)

\* the billing provider holds one customer at most for an e-mail address
OneCustomerPerEmail ==
    \A i, j \in DOMAIN stripe.customers :
        stripe.customers[i] = stripe.customers[j] => i = j

\* a call of subscribe that has its customer has the customer the billing
\* provider lists for the call's e-mail address
UsesListedCustomer(p) ==
    (IsPending(p, "subscribe") /\ calls[p].arg.customerId # "")
        => calls[p].arg.customerId = ListedCustomer(stripe.customers, calls[p].arg.email)

\* C21: find-or-create of the customer is idempotent.  After any number of
\* calls of subscribe for an e-mail address, calls that failed at a later
\* step and calls that overlap included, the billing provider holds one
\* customer at most for that address and every call uses that customer
C21_OneCustomerPerEmail ==
    /\ OneCustomerPerEmail
    /\ \A p \in Procs : UsesListedCustomer(p)

-----------------------------------------------------------------------------
(* Top coins: the list an account stores *)

\* lists of no, one, two, three and four coins
CoinLists ==
    { <<>>, <<"SOL">>, <<"ETH", "BTC">>, <<"BTC", "ETH", "SOL">>,
      <<"BTC", "ETH", "SOL", "XRP">> }

NextCoins ==
    \E p \in Procs :
        \/ \E u \in Ids : createUser_call(p, UserInput(u, <<>>, None))
        \/ createUser_store(p)
        \/ \E u \in Ids, coins \in CoinLists : updateUserTopCoins_call(p, u, coins)
        \/ updateUserTopCoins_store(p)
        \/ Return(p)

SpecCoins == Init /\ [][NextCoins]_vars

\* every stored list has three coins at most
TopCoinsBounded == \A u \in DOMAIN db : Len(db[u].topCoins) <= MaxTopCoins

\* process p's call of updateUserTopCoins ends in this step
EndsCoins(p) ==
    /\ calls[p].pc # "done"
    /\ calls'[p].pc = "done"
    /\ calls'[p].op = "updateUserTopCoins"

\* C22: topCoins has three entries at most in every reachable state.
\* updateUserTopCoins with more than three entries fails with "Only 3 coins
\* can be selected" and leaves the store unchanged; with none to three
\* entries it replaces the list of an account by the given sequence
C22_TopCoinsAtMostThree ==
    /\ []TopCoinsBounded
    /\ [][\A p \in Procs : EndsCoins(p) =>
            LET arg == calls'[p].arg
            IN  IF Len(arg.topCoins) > MaxTopCoins
                THEN /\ calls'[p].threw
                     /\ calls'[p].val = TooManyCoinsMsg
                     /\ db' = db
                ELSE arg.userId \in DOMAIN db =>
                        /\ ~calls'[p].threw
                        /\ calls'[p].val = arg.topCoins
                        /\ db'[arg.userId].topCoins = arg.topCoins
                        /\ db' = Put(db, arg.userId,
                                     [db[arg.userId] EXCEPT !.topCoins = arg.topCoins])
          ]_vars

\* a list of one coin has replaced a list of three
C22_Witness ==
    /\ "u1" \in DOMAIN db
    /\ db["u1"].topCoins = <<"SOL">>
    /\ \A p \in Procs :
          /\ IsDone(p, "updateUserTopCoins")
          /\ ~calls[p].threw
          /\ calls[p].arg.userId = "u1"
    /\ calls["p1"].arg.topCoins = <<"SOL">>
    /\ calls["p2"].arg.topCoins = <<"BTC", "ETH", "SOL">>

-----------------------------------------------------------------------------
(* hasEnoughCredits *)

\* a lookup that reads a missing account as one with no credits
FoundCredits_Default(store, userId) ==
    IF userId \in DOMAIN store THEN <<store[userId].credits>> ELSE <<0>>

\* User.findOne({ clerkId: userId }, { credits: 1 }): the credits of the
\* account in a sequence of one, the empty sequence for null
FoundCredits(store, userId) ==
    IF userId \in DOMAIN store THEN <<store[userId].credits>> ELSE <<>>

hasEnoughCredits_call(p, userId, requiredCredits) ==
    /\ calls[p].pc = "idle"
    /\ calls' = [calls EXCEPT ![p] =
           Pending("hasEnoughCredits",
                   [userId |-> userId, requiredCredits |-> requiredCredits])]
    /\ UNCHANGED <<db, now, audit, stripe, client>>

hasEnoughCredits_store(p) ==
    /\ IsPending(p, "hasEnoughCredits")
    /\ LET arg  == calls[p].arg
           user == FoundCredits(db, arg.userId)
       IN  calls' = [calls EXCEPT ![p] =
               IF user = <<>>
               THEN Threw("hasEnoughCredits", arg, NotFoundMsg)
               ELSE Returned("hasEnoughCredits", arg,
                             IF user[1] >= arg.requiredCredits
                             THEN <<"true">> ELSE <<"false">>)]
    /\ UNCHANGED <<db, now, audit, stripe, client>>

-----------------------------------------------------------------------------
(* Operations addressed to an id that may have no account *)

\* process p1 calls the operations on both ids; process p2 runs identity
\* sync and the billing flow, the two paths that create accounts
NextAbsent ==
    \/ \E u \in Ids :
          \/ setUsername_call("p1", u, ProviderName("u2"))
          \/ setSolanaWallet_call("p1", u, WalletA)
          \/ clearSolanaWallet_call("p1", u)
          \/ updateUserTopCoins_call("p1", u, <<"SOL">>)
          \/ hasEnoughCredits_call("p1", u, 1)
          \/ \E a \in {0, 1} :
                /\ audit[u].credited + a <= MaxGrant
                /\ addCredits_call("p1", u, a)
    \/ setUsername_store("p1")
    \/ setSolanaWallet_store("p1")
    \/ clearSolanaWallet_store("p1")
    \/ updateUserTopCoins_store("p1")
    \/ hasEnoughCredits_store("p1")
    \/ addCredits_store("p1")
    \/ \E u \in Ids :
          POST_call("p2", Request(SvixHeaders, TRUE, "user.created",
                                  EventData("user.created", u, ProviderName(u))))
    \/ POST_createUser("p2")
    \/ POST_retry("p2")
    \/ /\ Len(stripe.sessions) < MaxSessions
       /\ subscribe_call("p2", "u2", EmailOf("u2"), "price_basic")
    \/ subscribe_list("p2")
    \/ subscribe_create("p2")
    \/ subscribe_update("p2")
    \/ subscribe_price("p2")
    \/ subscribe_session("p2")
    \/ \E p \in Procs : Return(p)

SpecAbsent == Init /\ [][NextAbsent]_vars

\* the operations that address an account and never create one
AccountOps ==
    { "setUsername", "setSolanaWallet", "clearSolanaWallet",
      "updateUserTopCoins", "addCredits", "hasEnoughCredits" }

\* the id a call of one of these operations addresses
AddressedId(c) == c.arg.userId

\* process p's call reaches the store in this step and finds no account
MissesAccount(p) ==
    /\ calls[p].pc = "pending"
    /\ calls[p].op \in AccountOps
    /\ calls'[p].pc = "done"
    /\ AddressedId(calls[p]) \notin DOMAIN db

\* process p's call is refused for its input, before it reaches the store
RefusedForInput(p) ==
    /\ calls[p].pc = "idle"
    /\ calls'[p].pc = "done"
    /\ calls'[p].op \in AccountOps

\* process p's request is at a step of identity sync or of the billing flow
\* that writes an account
AtCreatingStep(p) ==
    /\ calls'[p] # calls[p]
    /\ \/ Steps(p, "createUser")
       \/ Steps(p, "retry")
       \/ InSubscribe(p, "update")

\* C23: setUsername, setSolanaWallet, clearSolanaWallet, updateUserTopCoins,
\* addCredits and hasEnoughCredits addressed to an id that has no account
\* fail with "User not found", create no account and leave the store
\* unchanged (a call refused for its input fails before it reaches the store
\* and leaves the store unchanged too); only identity sync and the billing
\* flow create accounts
C23_AbsentAccountNotFound ==
    [][/\ \A p \in Procs :
            /\ MissesAccount(p) =>
                  /\ calls'[p].threw
                  /\ calls'[p].val = NotFoundMsg
                  /\ db' = db
            /\ RefusedForInput(p) => calls'[p].threw /\ db' = db
       /\ DOMAIN db' # DOMAIN db => \E p \in Procs : AtCreatingStep(p)
      ]_vars

\* a call of hasEnoughCredits for u1 has found no account, while the billing
\* flow has created the account of u2
C23_Witness ==
    /\ IsDone("p1", "hasEnoughCredits")
    /\ calls["p1"].threw
    /\ calls["p1"].val = NotFoundMsg
    /\ calls["p1"].arg.userId = "u1"
    /\ DOMAIN db = {"u2"}

-----------------------------------------------------------------------------
(* Store failures during identity sync *)

\* the store operation of process p's event fails in this step for a
\* reason other than a collision of user names, and the handler answers
StoreFailureAnswered(p) ==
    /\ calls'[p].pc = "done"
    /\ \/ /\ Steps(p, "createUser")
          /\ UpsertDups(db, fullPayload(calls[p].arg.req.data)) # {}
       \/ /\ Steps(p, "retry")
          /\ UpsertDups(db, basePayload(calls[p].arg.req.data)) # {}
       \/ /\ Steps(p, "updateOne")
          /\ calls'[p].arg.at = "warn"

\* C24: identity sync swallows no store failure.  Whenever the store
\* operation of a verified user.created, user.updated or user.deleted event
\* fails for a reason other than a collision of user names, the handler
\* answers with its failure response, not with a success response
C24_StoreFailureSurfaced ==
    [][\A p \in Procs : StoreFailureAnswered(p) => calls'[p].val = InternalError]_vars

\* the part of C24 that holds: a failed upsert of a user.created or
\* user.updated event is answered with the failure response
C24_UpsertFailureSurfaced ==
    [][\A p \in Procs :
          (StoreFailureAnswered(p) /\ ~Steps(p, "updateOne"))
              => calls'[p].val = InternalError]_vars

-----------------------------------------------------------------------------
(* The life of an account: creation, deletion and late events *)

\* debits in one life
MaxLifeDebits == 1

\* a user.created event about id u2 that carries the address of u1
SharedEmailData ==
    [EventData("user.created", "u2", None) EXCEPT
        !.email_addresses = << [id |-> "e1", email_address |-> EmailOf("u1")] >>]

\* creations of both accounts with and without a user name, a creation of
\* u2 under the address of u1, an update of u1, deletions of both
LifecycleRequests ==
    { Request(SvixHeaders, TRUE, "user.created", EventData("user.created", u, n)) :
        u \in Ids, n \in {None, ProviderName("u2")} } \cup
    { Request(SvixHeaders, TRUE, "user.created", SharedEmailData),
      Request(SvixHeaders, TRUE, "user.updated",
              EventData("user.updated", "u1", ProviderName("u1"))) } \cup
    { Request(SvixHeaders, TRUE, "user.deleted", EventData("user.deleted", u, None)) :
        u \in Ids }

\* process p2 delivers the events of the identity provider; process p1
\* calls the operations of the account u1
NextLifecycle ==
    \/ \E req \in LifecycleRequests : POST_call("p2", req)
    \/ POST_createUser("p2")
    \/ POST_retry("p2")
    \/ POST_updateOne("p2")
    \/ setSolanaWallet_call("p1", "u1", WalletA)
    \/ setSolanaWallet_store("p1")
    \/ clearSolanaWallet_call("p1", "u1")
    \/ clearSolanaWallet_store("p1")
    \/ updateUserTopCoins_call("p1", "u1", <<"SOL">>)
    \/ updateUserTopCoins_store("p1")
    \/ setUsername_call("p1", "u1", ProviderName("u1"))
    \/ setUsername_store("p1")
    \/ /\ now < MaxLifeDebits
       /\ consumeBacktestCredits_call("p1", "u1", 1, "SOL", "rsi")
    \/ consumeBacktestCredits_store("p1")
    \/ \E p \in Procs : Return(p)

SpecLifecycle == Init /\ [][NextLifecycle]_vars

\* the account is active: deletedAt is unset
Active(doc) == doc.deletedAt = NoDate

\* no two active accounts share an address (the store is keyed by clerkId:
\* no two accounts share a clerkId)
ActiveEmailsUnique ==
    \A u, v \in DOMAIN db :
        (u # v /\ Active(db[u]) /\ Active(db[v])) => db[u].email # db[v].email

\* process p's user.created event is about an id without account, and of the
\* unique indexes the insert can only meet the address of accounts that are
\* soft-deleted
CreatesBesideDeleted(p) ==
    /\ Steps(p, "createUser")
    /\ LET user == fullPayload(calls[p].arg.req.data)
       IN  /\ calls[p].arg.req.type = "user.created"
           /\ user.clerkId \notin DOMAIN db
           /\ UpsertDups(db, user) \subseteq {"email"}
           /\ \A v \in DOMAIN db :
                 db[v].email = Trim(ToLowerCase(user.email)) => ~Active(db[v])

\* C25: uniqueness of address and clerkId is scoped to accounts that are not
\* deleted.  No two accounts with deletedAt unset share an address or an id,
\* and a soft-deleted account is outside the constraint: after the deletion
\* of an account with address e, a user.created event for another id with
\* address e succeeds
C25_UniquenessScopedToActive ==
    /\ []ActiveEmailsUnique
    /\ [][\A p \in Procs : CreatesBesideDeleted(p) =>
             /\ calls'[p] = Returned("POST", calls[p].arg, UserCreated)
             /\ calls[p].arg.req.data.id \in DOMAIN db'
         ]_vars

\* the part of C25 that holds: active accounts never share an address
C25_ActiveEmailsUnique == ActiveEmailsUnique



\* C26: the life of an account is absent, then active, then deleted, and
\* only moves forward.  No account is ever removed from the store, and once
\* deletedAt is set no later operation and no replayed or late user.created
\* or user.updated event unsets it
C26_LifecycleOnlyForward ==
    [][/\ DOMAIN db \subseteq DOMAIN db'
       /\ \A u \in DOMAIN db : ~Active(db[u]) => ~Active(db'[u])
      ]_vars

\* a late user.updated event about the deleted account u1 has been applied
C26_Witness ==
    /\ IsDone("p2", "POST")
    /\ calls["p2"].arg.req.type = "user.updated"
    /\ calls["p2"].arg.req.data.id = "u1"
    /\ calls["p2"].val = UserUpdated
    /\ "u1" \in DOMAIN db
    /\ ~Active(db["u1"])
    /\ db["u1"].email = Trim(ToLowerCase(EmailOf("u1")))

-----------------------------------------------------------------------------
(* User names, whichever operation stores them *)

\* a user name of the identity provider that is a reserved word here
ReservedProviderName == <<"a", "d", "m", "i", "n">>

\* a user name of the identity provider with a character the format rule
\* does not allow
HyphenProviderName == <<"a", "-", "b", "c">>

\* user.created and user.updated events with the user names the identity
\* provider may hold
HandleRequests ==
    { Request(SvixHeaders, TRUE, "user.created",
              EventData("user.created", u, ProviderName(u))) : u \in Ids } \cup
    { Request(SvixHeaders, TRUE, "user.created",
              EventData("user.created", u, ReservedProviderName)) : u \in Ids } \cup
    { Request(SvixHeaders, TRUE, "user.updated",
              EventData("user.updated", "u1", HyphenProviderName)) }

NextHandles ==
    \E p \in Procs :
        \/ \E req \in HandleRequests : POST_call(p, req)
        \/ POST_createUser(p)
        \/ POST_retry(p)
        \/ \E u \in Ids, n \in {ProviderName("u1"), ReservedProviderName} :
              setUsername_call(p, u, n)
        \/ setUsername_store(p)
        \/ /\ p = "p1"
           /\ setSolanaWallet_call(p, "u1", WalletA)
        \/ setSolanaWallet_store(p)
        \/ Return(p)

SpecHandles == Init /\ [][NextHandles]_vars

\* username and usernameLower are both absent, or both present with
\* usernameLower the lower-cased username
LowerMatches(doc) ==
    IF doc.username = None THEN doc.usernameLower = None
    ELSE doc.usernameLower = ToLowerCase(doc.username)

\* C27: every username stored on an account, written by setUsername or by
\* identity sync with a user name of the identity provider, follows the
\* format rule (3 to 20 letters, digits or underscores) and is no reserved
\* word, and usernameLower is the lower-cased username, both present or both
\* absent
C27_StoredUsernamesWellFormed ==
    \A u \in DOMAIN db :
        /\ LowerMatches(db[u])
        /\ db[u].username # None =>
              /\ FollowsFormat(db[u].username)
              /\ ToLowerCase(db[u].username) \notin RESERVED

\* the part of C27 that holds: username and usernameLower go together
C27_LowerMatchesUsername == \A u \in DOMAIN db : LowerMatches(db[u])

-----------------------------------------------------------------------------
(* The address of an account, whichever path created it *)

\* the account has an address, lower-cased and trimmed
HasNormalEmail(doc) ==
    /\ doc.email # None
    /\ doc.email # <<>>
    /\ doc.email = Trim(ToLowerCase(doc.email))

\* the upsert of process p's subscribe meets an id without account while
\* the store holds other accounts
BillingCreatesSecond(p) ==
    /\ InSubscribe(p, "update")
    /\ calls'[p] # calls[p]
    /\ calls[p].arg.userId \notin DOMAIN db
    /\ DOMAIN db # {}

\* C28: every account in the store has a non-empty address, lower-cased and
\* trimmed, whether identity sync created it or the upsert of subscribe for
\* an id without account; and a second account can be created by subscribe
\* without a uniqueness conflict
C28_EveryAccountHasEmail ==
    /\ [](\A u \in DOMAIN db : HasNormalEmail(db[u]))
    /\ [][\A p \in Procs : BillingCreatesSecond(p) =>
             calls[p].arg.userId \in DOMAIN db']_vars

\* the part of C28 that holds: an address that is stored is lower-cased and
\* trimmed
C28_StoredEmailNormal ==
    \A u \in DOMAIN db : db[u].email # None => HasNormalEmail(db[u])

-----------------------------------------------------------------------------
(* getUser *)

\* the fields of the DTO the browser reads
UserDTO(u, doc) == [clerkId |-> u, solanaWallet |-> doc.solanaWallet]

FetchFailedMsg == <<"fetch failed">>

getUser_call(p, userId) ==
    /\ calls[p].pc = "idle"
    /\ calls' = [calls EXCEPT ![p] = Pending("getUser", [userId |-> userId])]
    /\ UNCHANGED <<db, now, audit, stripe, client>>

\* User.findOne({ clerkId: userId }): the DTO in a sequence of one, the empty
\* sequence for null; or the request fails (the store or the network is
\* unreachable) and the promise rejects
getUser_store(p) ==
    /\ IsPending(p, "getUser")
    /\ LET arg == calls[p].arg
           u   == arg.userId
       IN  \/ calls' = [calls EXCEPT ![p] =
                  Returned("getUser", arg,
                           IF u \in DOMAIN db THEN <<UserDTO(u, db[u])>> ELSE <<>>)]
           \/ calls' = [calls EXCEPT ![p] = Threw("getUser", arg, FetchFailedMsg)]
    /\ UNCHANGED <<db, now, audit, stripe, client>>

-----------------------------------------------------------------------------
(* The browser: UserProvider and WalletControl *)

\* process p carries no effect and no request
Free(p) == client.tasks[p] = NoTask /\ calls[p].pc = "idle"

\* the effect of UserProvider on [isClerkLoaded, clerkUser?.id], run when
\* Clerk reports a signed-in user, another user or none (user = ""), up to
\* its await.  The run at mount, with Clerk not loaded, leaves the initial
\* state
UserProvider_load(p, user) ==
    /\ ~client.isClerkLoaded \/ user # client.clerkUser
    /\ Free(p)
    /\ client' =
          IF user = ""
          THEN [client EXCEPT !.isClerkLoaded   = TRUE,
                              !.clerkUser       = "",
                              !.mongoUser       = <<>>,
                              !.isContextLoaded = TRUE,
                              !.rerun           = TRUE]
          ELSE [client EXCEPT !.isClerkLoaded   = TRUE,
                              !.clerkUser       = user,
                              !.isContextLoaded = FALSE,
                              !.rerun           = TRUE,
                              !.tasks[p]        = [kind |-> "load", id |-> user]]
    /\ UNCHANGED <<db, calls, now, audit, stripe>>

\* the effect resumes with the answer of getUser: setMongoUser(data ?? null),
\* or the catch; then the finally
UserProvider_loaded(p) ==
    /\ client.tasks[p].kind = "load"
    /\ IsDone(p, "getUser")
    /\ client' = [client EXCEPT
           !.mongoUser       = IF calls[p].threw THEN @ ELSE calls[p].val,
           !.isContextLoaded = TRUE,
           !.rerun           = TRUE,
           !.tasks[p]        = NoTask]
    /\ calls' = [calls EXCEPT ![p] = Idle]
    /\ UNCHANGED <<db, now, audit, stripe>>

\* the wallet adapter connects an address: publicKey is set
Wallet_connect(address) ==
    /\ client.connectedAddress = <<>>
    /\ client' = [client EXCEPT !.connectedAddress = address, !.rerun = TRUE]
    /\ UNCHANGED <<db, calls, now, audit, stripe>>

\* disconnectNow
Wallet_disconnect ==
    /\ client.connectedAddress # <<>>
    /\ client' = [client EXCEPT !.connectedAddress = <<>>, !.rerun = TRUE]
    /\ UNCHANGED <<db, calls, now, audit, stripe>>

\* mongoUser?.solanaWallet ?? ""
ContextWallet(mongoUser) == IF mongoUser = <<>> THEN <<>> ELSE mongoUser[1].solanaWallet

\* what sync does with the values of its render: return, register the
\* connected address (registerWalletIfEmpty tests the same mongoUser and
\* calls setSolanaWallet), or disconnect
SyncDecision(isContextLoaded, clerkUser, connectedAddress, mongoUser) ==
    IF ~isContextLoaded \/ clerkUser = "" \/ connectedAddress = <<>> THEN "return"
    ELSE IF ContextWallet(mongoUser) = <<>> THEN "register"
    ELSE IF ContextWallet(mongoUser) # connectedAddress THEN "disconnect"
    ELSE "return"

\* the effect of WalletControl, run after one of its dependencies changed,
\* up to its first await
WalletControl_sync(p) ==
    /\ client.rerun
    /\ Free(p)
    /\ LET decision == SyncDecision(client.isContextLoaded, client.clerkUser,
                                    client.connectedAddress, client.mongoUser)
       IN  client' =
              CASE decision = "register" ->
                     [client EXCEPT !.rerun    = FALSE,
                                    !.tasks[p] = [kind    |-> "sync",
                                                  at      |-> "setSolanaWallet",
                                                  id      |-> client.clerkUser,
                                                  address |-> client.connectedAddress]]
                [] decision = "disconnect" ->
                     [client EXCEPT !.rerun = FALSE, !.connectedAddress = <<>>]
                [] OTHER -> [client EXCEPT !.rerun = FALSE]
    /\ UNCHANGED <<db, calls, now, audit, stripe>>

\* sync resumes with the answer of setSolanaWallet: registerWalletIfEmpty
\* goes on to refreshUser, or the catch disconnects
WalletControl_registered(p) ==
    /\ client.tasks[p].kind = "sync"
    /\ client.tasks[p].at = "setSolanaWallet"
    /\ IsDone(p, "setSolanaWallet")
    /\ client' =
          IF calls[p].threw
          THEN [client EXCEPT !.connectedAddress = <<>>, !.tasks[p] = NoTask]
          ELSE [client EXCEPT !.tasks[p].at = "refreshUser"]
    /\ calls' = [calls EXCEPT ![p] = Idle]
    /\ UNCHANGED <<db, now, audit, stripe>>

\* refreshUser resumes with the answer of getUser: setMongoUser(data); the
\* refreshUser of registerWalletIfEmpty is followed by the one of sync; a
\* rejection reaches the catch of sync
WalletControl_refreshed(p) ==
    /\ client.tasks[p].kind = "sync"
    /\ client.tasks[p].at \in {"refreshUser", "refreshUser again"}
    /\ IsDone(p, "getUser")
    /\ client' =
          IF calls[p].threw
          THEN [client EXCEPT !.connectedAddress = <<>>, !.tasks[p] = NoTask]
          ELSE [client EXCEPT
                  !.mongoUser = calls[p].val,
                  !.rerun     = TRUE,
                  !.tasks[p]  = IF client.tasks[p].at = "refreshUser"
                                THEN [@ EXCEPT !.at = "refreshUser again"]
                                ELSE NoTask]
    /\ calls' = [calls EXCEPT ![p] = Idle]
    /\ UNCHANGED <<db, now, audit, stripe>>

\* the effect on process p awaits getUser
AwaitsGetUser(p) ==
    \/ client.tasks[p].kind = "load"
    \/ /\ client.tasks[p].kind = "sync"
       /\ client.tasks[p].at \in {"refreshUser", "refreshUser again"}

\* the effect on process p awaits setSolanaWallet
AwaitsSetWallet(p) ==
    /\ client.tasks[p].kind = "sync"
    /\ client.tasks[p].at = "setSolanaWallet"

\* the browser of the model, the identity sync that creates the account of
\* u1, and another browser of u1 that registers wallet A while the account
\* has none
NextClient ==
    \E p \in Procs :
        \/ \E user \in {"", "u1", "u2"} : UserProvider_load(p, user)
        \/ UserProvider_loaded(p)
        \/ \E a \in {WalletA, WalletB} : Wallet_connect(a)
        \/ Wallet_disconnect
        \/ WalletControl_sync(p)
        \/ WalletControl_registered(p)
        \/ WalletControl_refreshed(p)
        \/ /\ AwaitsGetUser(p)
           /\ getUser_call(p, client.tasks[p].id)
        \/ getUser_store(p)
        \/ /\ AwaitsSetWallet(p)
           /\ setSolanaWallet_call(p, client.tasks[p].id, client.tasks[p].address)
        \/ /\ client.tasks[p] = NoTask
           /\ "u1" \in DOMAIN db
           /\ db["u1"].solanaWallet = <<>>
           /\ setSolanaWallet_call(p, "u1", WalletA)
        \/ setSolanaWallet_store(p)
        \/ /\ client.tasks[p] = NoTask
           /\ createUser_call(p, UserInput("u1", <<>>, None))
        \/ createUser_store(p)
        \/ /\ client.tasks[p] = NoTask
           /\ Return(p)

SpecClient == Init /\ [][NextClient]_vars

\* the registration of process p's effect reaches the store in this step
RegistersFromBrowser(p) ==
    /\ AwaitsSetWallet(p)
    /\ IsPending(p, "setSolanaWallet")
    /\ calls'[p].pc = "done"

\* C29: the wallet registration of the browser never overwrites a
\* registered wallet.  If the account holds a non-empty solanaWallet w, then
\* after any wallet connect handled by WalletControl and
\* registerWalletIfEmpty (while the context loads, after a failed fetch of
\* the user, with a stale cache) the account still holds w: an address
\* other than w is disconnected, not registered
C29_RegisteredWalletNotOverwritten ==
    [][\A p \in Procs : RegistersFromBrowser(p) =>
          \A u \in DOMAIN db :
              db[u].solanaWallet # <<>> => db'[u].solanaWallet = db[u].solanaWallet
      ]_vars

\* the part of C29 that holds: with the registered wallet in its cache, the
\* effect of WalletControl registers nothing and disconnects another address
C29_FreshCacheDisconnects ==
    [][\A p \in Procs :
          (/\ client.rerun
           /\ client'.tasks[p] # client.tasks[p]
           /\ client'.tasks[p].kind = "sync"
           /\ client.tasks[p] = NoTask)
             => ContextWallet(client.mongoUser) = <<>>
      ]_vars

\* the effect of UserProvider on process p fetches the signed-in user
LoadsCurrentUser(p) ==
    /\ client.tasks[p].kind = "load"
    /\ client.tasks[p].id = client.clerkUser

\* C30: whenever isContextLoaded is true, no fetch for the signed-in user is
\* pending and mongoUser, if not null, is the account of the signed-in user:
\* when the user changes while a getUser call is in flight, the late answer
\* neither sets isContextLoaded early nor replaces mongoUser with the account
\* of the user before
C30_LoadedContextIsCurrent ==
    client.isContextLoaded =>
        /\ \A p \in Procs : ~LoadsCurrentUser(p)
        /\ client.mongoUser # <<>> => client.mongoUser[1].clerkId = client.clerkUser

=============================================================================
